---- MODULE Spec2Model ----
(***************************************************************************)
(* A model of the medical claim processor: the pipeline of                 *)
(* ClaimProcessor.process_claim (prepare, classify, extract, validate,     *)
(* decide, respond), the decision engine, the validator and the three      *)
(* extraction agents.                                                      *)
(*                                                                         *)
(* Conventions.                                                            *)
(*  - A Python value (None, number, string, list) is a record              *)
(*    [k, n, s]: k its kind, n its number (or a list's length), s its      *)
(*    string.  Truthy is Python's truth value.                             *)
(*  - A confidence is a number of hundredths: 0.3 is 30, 1.0 is 100.  A    *)
(*    decision's confidence is the exact fraction [num, den] of            *)
(*    hundredths, since the mean of the record confidences need not be a   *)
(*    whole number of hundredths.                                          *)
(*  - A message (a reason, a validation entry) is the sequence of the      *)
(*    pieces the code concatenates; a substring test for a document type   *)
(*    is a test for that piece.                                            *)
(*  - An operator that models a function which can raise returns           *)
(*    Raised(msg) in place of a result.                                    *)
(***************************************************************************)
EXTENDS Integers, Sequences, FiniteSets, TLC

VARIABLES
    pc,                 \* position of process_claim
    model,              \* the generative backend: "none" or "configured"
    files,              \* the uploaded files
    documents_data,     \* _prepare_documents' result
    classified_docs,    \* _classify_documents' result
    extracted_data,     \* _extract_data's result: the records
    validation_result,  \* the validator's report
    claim_decision,     \* make_decision's result
    llm_log,            \* the backend's answers to the calls made so far
    response,           \* what process_claim returns
    propagated,         \* an exception that left process_claim, "" if none
    temp_files,         \* the temporary files on disk, by the index of their upload
    fault,              \* the stage in which the environment fails, "none" if none
    raised,             \* the exception a stage raised into its caller's handler
    validator,          \* the attributes of the processor's ClaimValidator
    validations         \* the calls of validate so far: records and outcome

vars == <<pc, model, files, documents_data, classified_docs, extracted_data,
          validation_result, claim_decision, llm_log, response, propagated,
          temp_files, fault, raised, validator, validations>>

----------------------------------------------------------------------------
(* Python values *)

None == [k |-> "none", n |-> 0, s |-> ""]

Num(x) == [k |-> "num", n |-> x, s |-> ""]

Str(x) == [k |-> "str", n |-> 0, s |-> x]

List(len) == [k |-> "list", n |-> len, s |-> ""]

Truthy(v) ==
    CASE v.k = "none" -> FALSE
      [] v.k = "num"  -> v.n # 0
      [] v.k = "str"  -> v.s # ""
      [] v.k = "list" -> v.n > 0

\* dict.get(key): None for a key the dict does not hold
Get(d, key) == IF key \in DOMAIN d THEN d[key] ELSE None

\* Python's `a or b`
Or(a, b) == IF Truthy(a) THEN a ELSE b

Raised(msg) == [exc |-> msg]

IsRaised(r) == DOMAIN r = {"exc"}

Rat(a, b) == [num |-> a, den |-> b]

\* a / b < c / d, for positive denominators
RatLess(x, y) == x.num * y.den < y.num * x.den

RatLeq(x, y) == x.num * y.den <= y.num * x.den

RECURSIVE SumConf(_)
SumConf(records) ==
    IF records = <<>> THEN 0
    ELSE Head(records).extraction_confidence + SumConf(Tail(records))

\* sep.join(parts), each part a message
RECURSIVE Join(_, _)
Join(parts, sep) ==
    IF parts = <<>> THEN <<>>
    ELSE IF Len(parts) = 1 THEN Head(parts)
    ELSE Head(parts) \o <<sep>> \o Join(Tail(parts), sep)

\* `word in message`
Mentions(message, word) == \E i \in 1..Len(message) : message[i] = word

Min(a, b) == IF a <= b THEN a ELSE b

----------------------------------------------------------------------------
(* DecisionEngine *)

\* approval_rules
max_discrepancies == 2

min_confidence == 30

max_claim_amount == 1000000

ClaimDecision(status, reason, confidence, recommended_amount) ==
    [status |-> status, reason |-> reason, confidence |-> confidence,
     recommended_amount |-> recommended_amount]

\* _get_claim_amount, were the last such bill taken instead of the first
_get_claim_amount_last(records) ==
    LET bills == {i \in 1..Len(records) :
                     /\ records[i].document_type = "hospital_bill"
                     /\ Truthy(Get(records[i].data, "total_amount"))
                     /\ Get(records[i].data, "total_amount").k = "num"}
    IN  IF bills = {} THEN None
        ELSE Get(records[CHOOSE i \in bills : \A j \in bills : j <= i].data,
                 "total_amount")

\* The first hospital_bill record whose total_amount is a non-zero number.
RECURSIVE _get_claim_amount(_)
_get_claim_amount(records) ==
    IF records = <<>> THEN None
    ELSE LET data == Head(records)
             amount == Get(data.data, "total_amount")
         IN  IF /\ data.document_type = "hospital_bill"
                /\ Truthy(amount)
                /\ amount.k = "num"
             THEN amount
             ELSE _get_claim_amount(Tail(records))

_is_claim_valid(records) ==
    LET has_valid_doc ==
            \E i \in 1..Len(records) : records[i].extraction_confidence > 30
        has_patient_info ==
            \E i \in 1..Len(records) :
                /\ records[i].document_type \in {"hospital_bill", "discharge_summary"}
                /\ Truthy(Get(records[i].data, "patient_name"))
        has_amount_info ==
            \E i \in 1..Len(records) :
                /\ records[i].document_type = "hospital_bill"
                /\ Truthy(Get(records[i].data, "total_amount"))
    IN  has_valid_doc /\ has_patient_info /\ has_amount_info

\* The approval of gate f with mean + 0.2 as its confidence, whatever it is.
ApproveDecision_uncapped(records, validation) ==
    ClaimDecision(
        "approved",
        <<"All documents verified and validation checks passed">>
          \o (IF validation.warnings # <<>>
              THEN <<". Note: ", ToString(Len(validation.warnings)),
                     " warnings found">>
              ELSE <<>>),
        Rat(SumConf(records) + 20 * Len(records), Len(records)),
        _get_claim_amount(records))

\* The approval of gate f, as the other gates have let the claim through.
ApproveDecision(records, validation) ==
    LET n == Len(records)
        total == SumConf(records)
    IN  ClaimDecision(
            "approved",
            <<"All documents verified and validation checks passed">>
              \o (IF validation.warnings # <<>>
                  THEN <<". Note: ", ToString(Len(validation.warnings)),
                         " warnings found">>
                  ELSE <<>>),
            Rat(Min(total + 20 * n, 100 * n), n),
            _get_claim_amount(records))

\* Gate a, were any missing required document critical
missing_critical_any(validation) == validation.missing_documents # <<>>

\* any("hospital_bill" in missing for missing in missing_documents)
missing_critical(validation) ==
    /\ validation.missing_documents # <<>>
    /\ \E i \in 1..Len(validation.missing_documents) :
           Mentions(validation.missing_documents[i], "hospital_bill")

TooManyDiscrepancies(validation) ==
    Len(validation.discrepancies) > max_discrepancies

\* avg_confidence <= min_confidence
LowConfidence_inclusive(records) ==
    SumConf(records) <= min_confidence * Len(records)

\* Gate c, were the mean taken over the records of the three known types only
LowConfidence_related(records) ==
    LET related == SelectSeq(records, LAMBDA r : r.document_type # "other")
    IN  SumConf(related) < min_confidence * Len(related)

\* avg_confidence < min_confidence, for a non-empty record list
LowConfidence(records) ==
    SumConf(records) < min_confidence * Len(records)

OverCeiling(records) ==
    LET claim_amount == _get_claim_amount(records)
    IN  Truthy(claim_amount) /\ claim_amount.n > max_claim_amount

RejectMissing(validation) ==
    ClaimDecision("rejected",
        <<"Missing critical documents: ">>
          \o Join(validation.missing_documents, ", "),
        Rat(90, 1), None)

RejectDiscrepancies(validation) ==
    LET discrepancies == validation.discrepancies
    IN  ClaimDecision("rejected",
            <<"Too many discrepancies found (", ToString(Len(discrepancies)), "): ">>
              \o Join(SubSeq(discrepancies, 1, Min(3, Len(discrepancies))), "; "),
            Rat(80, 1), None)

\* The reason carries the mean as the fraction total/n, not rounded to two places.
RejectLowConfidence(records) ==
    ClaimDecision("rejected",
        <<"Low data extraction confidence (", ToString(SumConf(records)), "/",
          ToString(Len(records)), "). Unable to verify claim details.">>,
        Rat(70, 1), None)

RejectOverCeiling(records) ==
    ClaimDecision("rejected",
        <<"Claim amount (", ToString(_get_claim_amount(records).n),
          ") exceeds maximum limit (", ToString(max_claim_amount), ")">>,
        Rat(90, 1), Num(max_claim_amount))

\* Gate e, were an invalid claim held for review instead of rejected
RejectInvalid_pending ==
    ClaimDecision("pending",
        <<"Claim does not meet basic validity requirements">>,
        Rat(80, 1), None)

RejectInvalid ==
    ClaimDecision("rejected",
        <<"Claim does not meet basic validity requirements">>,
        Rat(80, 1), None)

\* The cascade with the discrepancy gate ahead of the missing-document gate.
_rule_based_decision_b_first(records, validation) ==
    IF TooManyDiscrepancies(validation) THEN RejectDiscrepancies(validation)
    ELSE IF missing_critical(validation) THEN RejectMissing(validation)
    ELSE IF Len(records) = 0 THEN Raised("division by zero")
    ELSE IF LowConfidence(records) THEN RejectLowConfidence(records)
    ELSE IF OverCeiling(records) THEN RejectOverCeiling(records)
    ELSE IF ~ _is_claim_valid(records) THEN RejectInvalid
    ELSE ApproveDecision(records, validation)

_rule_based_decision(records, validation) ==
    IF missing_critical(validation) THEN RejectMissing(validation)
    ELSE IF TooManyDiscrepancies(validation) THEN RejectDiscrepancies(validation)
    ELSE IF Len(records) = 0 THEN Raised("division by zero")
    ELSE IF LowConfidence(records) THEN RejectLowConfidence(records)
    ELSE IF OverCeiling(records) THEN RejectOverCeiling(records)
    ELSE IF ~ _is_claim_valid(records) THEN RejectInvalid
    ELSE ApproveDecision(records, validation)

\* A backend answer is [shape, obj]: the backend raised ("raise"), the text holds
\* no {...} ("no_braces"), its {...} is not JSON ("bad_json"), or its {...} is
\* the JSON object obj ("object").
_parse_ai_response(resp) ==
    IF resp.shape = "object" THEN resp.obj ELSE None

\* pydantic's validation of ClaimDecision(**obj)
ValidDecisionObject(obj) ==
    /\ Get(obj, "status").k = "str"
    /\ Get(obj, "status").s \in {"approved", "rejected", "pending"}
    /\ Get(obj, "reason").k = "str"
    /\ "confidence" \in DOMAIN obj => obj["confidence"].k = "num"
    /\ Get(obj, "recommended_amount").k \in {"none", "num"}

DecisionFromObject(obj) ==
    ClaimDecision(obj["status"].s, <<obj["reason"].s>>,
                  IF "confidence" \in DOMAIN obj
                  THEN Rat(obj["confidence"].n, 1) ELSE Rat(0, 1),
                  Get(obj, "recommended_amount"))

\* _ai_assisted_decision without its try/except: a failure leaves it.
_ai_assisted_decision_uncaught(records, validation, rule_decision, resp) ==
    IF resp.shape = "raise"
    THEN Raised("backend error")
    ELSE LET ai_result == _parse_ai_response(resp)
         IN  IF ai_result # None /\ DOMAIN ai_result # {}
             THEN IF ValidDecisionObject(ai_result)
                  THEN DecisionFromObject(ai_result)
                  ELSE Raised("validation error for ClaimDecision")
             ELSE rule_decision

\* _ai_assisted_decision keeping the rule-based status unless the model agrees.
_ai_assisted_decision_blended(records, validation, rule_decision, resp) ==
    IF resp.shape = "raise"
    THEN rule_decision
    ELSE LET ai_result == _parse_ai_response(resp)
         IN  IF ai_result # None /\ DOMAIN ai_result # {}
             THEN IF ValidDecisionObject(ai_result)
                  THEN [DecisionFromObject(ai_result)
                            EXCEPT !.status = rule_decision.status]
                  ELSE rule_decision
             ELSE rule_decision

_ai_assisted_decision(records, validation, rule_decision, resp) ==
    IF resp.shape = "raise"
    THEN rule_decision
    ELSE LET ai_result == _parse_ai_response(resp)
         IN  IF ai_result # None /\ DOMAIN ai_result # {}
             THEN IF ValidDecisionObject(ai_result)
                  THEN DecisionFromObject(ai_result)
                  ELSE rule_decision
             ELSE rule_decision

\* The except clause of make_decision
make_decision_except(e) ==
    ClaimDecision("rejected",
        <<"Unable to process claim due to system error: ", e>>,
        Rat(10, 1), None)

\* make_decision, were the rule-based phase outside the try block
make_decision_rule_phase_unguarded(records, validation, backend, resp) ==
    LET rule_decision == _rule_based_decision(records, validation)
        ai_decision ==
            _ai_assisted_decision(records, validation, rule_decision, resp)
    IN  IF IsRaised(rule_decision)
        THEN rule_decision
        ELSE IF backend # "none"
        THEN IF IsRaised(ai_decision)
             THEN make_decision_except(ai_decision.exc)
             ELSE ai_decision
        ELSE rule_decision

make_decision(records, validation, backend, resp) ==
    LET rule_decision == _rule_based_decision(records, validation)
        ai_decision ==
            _ai_assisted_decision(records, validation, rule_decision, resp)
    IN  IF IsRaised(rule_decision)
        THEN make_decision_except(rule_decision.exc)
        ELSE IF backend # "none"
        THEN IF IsRaised(ai_decision)
             THEN make_decision_except(ai_decision.exc)
             ELSE ai_decision
        ELSE rule_decision

\* Whether make_decision asks the backend at all.
DecisionAsksBackend(records, validation, backend) ==
    backend # "none" /\ ~ IsRaised(_rule_based_decision(records, validation))

----------------------------------------------------------------------------
(* ClaimValidator *)

required_documents == <<"hospital_bill", "discharge_summary">>

ValidationResult(missing, discrepancies, warnings) ==
    [missing_documents |-> missing, discrepancies |-> discrepancies,
     warnings |-> warnings]

MissingEntry(doc) == <<"Missing required document: ", doc>>

HasType(records, type) ==
    \E i \in 1..Len(records) : records[i].document_type = type

RECURSIVE MissingOf(_, _)
MissingOf(required, records) ==
    IF required = <<>> THEN <<>>
    ELSE (IF HasType(records, Head(required))
          THEN <<>> ELSE <<MissingEntry(Head(required))>>)
         \o MissingOf(Tail(required), records)

\* _check_missing_documents, were the bill not among the required documents
_check_missing_documents_discharge_only(records) ==
    MissingOf(<<"discharge_summary">>, records)

_check_missing_documents(records) == MissingOf(required_documents, records)

\* data_by_type[type], were the first record of a type kept
LastOfType_first(records, type) ==
    LET idx == {i \in 1..Len(records) : records[i].document_type = type}
    IN  records[CHOOSE i \in idx : \A j \in idx : i <= j].data

\* data_by_type[type]: the data of the last record of that type
LastOfType(records, type) ==
    LET idx == {i \in 1..Len(records) : records[i].document_type = type}
    IN  records[CHOOSE i \in idx : \A j \in idx : j <= i].data

\* str(v) inside an f-string
Show(v) ==
    CASE v.k = "none" -> "None"
      [] v.k = "num"  -> ToString(v.n)
      [] v.k = "str"  -> v.s
      [] v.k = "list" -> "[...]"

\* The message of the AttributeError that v.lower() raises on a value that is no string.
NoLower(v) ==
    CASE v.k = "num"  -> "'int' object has no attribute 'lower'"
      [] v.k = "list" -> "'list' object has no attribute 'lower'"
      [] OTHER        -> "'NoneType' object has no attribute 'lower'"

\* ' '.join(name.lower().split()) on the names of the model
LowerCollapse(name) ==
    CASE name \in {"Asha Rao", "ASHA RAO", "asha  rao", "asha rao"} -> "asha rao"
      [] name \in {"John Smith", "john   smith", "john smith"} -> "john smith"
      [] name \in {"Jane Smith", "jane smith"} -> "jane smith"
      [] OTHER -> name

\* lower-cased, "hospital", "medical", "centre" and "center" removed, spaces collapsed
HospitalCore(name) ==
    CASE name \in {"Apollo Hospital", "Apollo Medical Centre", "APOLLO HOSPITAL",
                   "apollo"} -> "apollo"
      [] name \in {"Fortis Hospital", "Fortis Medical Center", "fortis"} -> "fortis"
      [] OTHER -> name

\* lower-cased, "insurance", "general", "ltd" and "limited" removed, spaces collapsed
InsurerCore(name) ==
    CASE name \in {"ACKO General Insurance", "Acko Insurance Ltd", "acko"} -> "acko"
      [] name \in {"SBI General Insurance", "SBI Insurance Limited", "sbi"} -> "sbi"
      [] OTHER -> name

\* The (document type, value) pairs of a check, in the order of `types`.
RECURSIVE Named(_, _, _)
Named(records, types, field) ==
    IF types = <<>> THEN <<>>
    ELSE LET type == Head(types)
             value ==
                 IF field = "patient_name"
                 THEN Or(Get(LastOfType(records, type), "patient_name"),
                         Get(LastOfType(records, type), "card_holder_name"))
                 ELSE Get(LastOfType(records, type), field)
         IN  (IF HasType(records, type) /\ Truthy(value)
              THEN << <<type, value>> >> ELSE <<>>)
             \o Named(records, Tail(types), field)

\* ', '.join(f'{doc}: {name}')
RECURSIVE Listing(_)
Listing(pairs) ==
    IF pairs = <<>> THEN <<>>
    ELSE <<pairs[1][1], ": ", Show(pairs[1][2])>>
         \o (IF Len(pairs) > 1 THEN <<", ">> ELSE <<>>)
         \o Listing(Tail(pairs))

NotStrings(pairs) == {i \in 1..Len(pairs) : pairs[i][2].k # "str"}

\* _names_match comparing the names as they are written
_names_match_as_written(pairs) ==
    \A i \in 1..Len(pairs) : pairs[i][2].s = pairs[1][2].s

_names_match(pairs) ==
    \A i \in 1..Len(pairs) :
        LowerCollapse(pairs[i][2].s) = LowerCollapse(pairs[1][2].s)

_hospital_names_match(pairs) ==
    \A i \in 1..Len(pairs) :
        HospitalCore(pairs[i][2].s) = HospitalCore(pairs[1][2].s)

_insurance_companies_match(company1, company2) ==
    InsurerCore(company1.s) = InsurerCore(company2.s)

\* DateCheck, were a date compared whether or not it is there
DateCheck_unguarded(records, field, label) ==
    LET bill == Get(LastOfType(records, "hospital_bill"), field)
        discharge == Get(LastOfType(records, "discharge_summary"), field)
    IN  IF bill # discharge
        THEN << <<label, " date mismatch: Bill shows ", Show(bill),
                  ", Discharge summary shows ", Show(discharge)>> >>
        ELSE <<>>

\* The discrepancy of one date check between the bill and the discharge summary.
DateCheck(records, field, label) ==
    LET bill == Get(LastOfType(records, "hospital_bill"), field)
        discharge == Get(LastOfType(records, "discharge_summary"), field)
    IN  IF Truthy(bill) /\ Truthy(discharge) /\ bill # discharge
        THEN << <<label, " date mismatch: Bill shows ", Show(bill),
                  ", Discharge summary shows ", Show(discharge)>> >>
        ELSE <<>>

\* The exception _check_discrepancies raises, "" if none: a name to compare
\* that is no string.
DiscrepancyError(records) ==
    LET patient_names ==
            Named(records, <<"hospital_bill", "discharge_summary", "insurance_card">>,
                  "patient_name")
        hospital_names ==
            Named(records, <<"hospital_bill", "discharge_summary">>, "hospital_name")
        both == HasType(records, "hospital_bill") /\ HasType(records, "insurance_card")
        bill_insurance == Get(LastOfType(records, "hospital_bill"), "insurance_company")
        card_insurance == Get(LastOfType(records, "insurance_card"), "insurance_company")
        First(pairs) == pairs[CHOOSE i \in NotStrings(pairs) :
                                  \A j \in NotStrings(pairs) : i <= j][2]
    IN  IF Len(patient_names) > 1 /\ NotStrings(patient_names) # {}
        THEN NoLower(First(patient_names))
        ELSE IF Len(hospital_names) > 1 /\ NotStrings(hospital_names) # {}
        THEN NoLower(First(hospital_names))
        ELSE IF both /\ Truthy(bill_insurance) /\ Truthy(card_insurance)
                /\ (bill_insurance.k # "str" \/ card_insurance.k # "str")
        THEN NoLower(IF bill_insurance.k # "str" THEN bill_insurance ELSE card_insurance)
        ELSE ""

_check_discrepancies(records) ==
    LET patient_names ==
            Named(records, <<"hospital_bill", "discharge_summary", "insurance_card">>,
                  "patient_name")
        hospital_names ==
            Named(records, <<"hospital_bill", "discharge_summary">>, "hospital_name")
        dated == HasType(records, "hospital_bill") /\ HasType(records, "discharge_summary")
        both == HasType(records, "hospital_bill") /\ HasType(records, "insurance_card")
        bill_insurance == Get(LastOfType(records, "hospital_bill"), "insurance_company")
        card_insurance == Get(LastOfType(records, "insurance_card"), "insurance_company")
    IN  (IF Len(patient_names) > 1 /\ ~ _names_match(patient_names)
         THEN << <<"Patient name mismatch across documents: ">>
                   \o Listing(patient_names) >>
         ELSE <<>>)
        \o (IF dated
            THEN DateCheck(records, "admission_date", "Admission")
                 \o DateCheck(records, "discharge_date", "Discharge")
            ELSE <<>>)
        \o (IF Len(hospital_names) > 1 /\ ~ _hospital_names_match(hospital_names)
            THEN << <<"Hospital name mismatch: ">> \o Listing(hospital_names) >>
            ELSE <<>>)
        \o (IF both /\ Truthy(bill_insurance) /\ Truthy(card_insurance)
               /\ ~ _insurance_companies_match(bill_insurance, card_insurance)
            THEN << <<"Insurance company mismatch: Bill shows ", Show(bill_insurance),
                      ", Card shows ", Show(card_insurance)>> >>
            ELSE <<>>)

RECURSIVE LowConfidenceWarnings(_)
LowConfidenceWarnings(records) ==
    IF records = <<>> THEN <<>>
    ELSE (IF Head(records).extraction_confidence < 50
          THEN << <<"Low confidence extraction for ", Head(records).document_type,
                    ": ", ToString(Head(records).extraction_confidence)>> >>
          ELSE <<>>)
         \o LowConfidenceWarnings(Tail(records))

\* The warnings for the key fields of one document type.
MissingFieldWarnings(records, type, fields) ==
    IF HasType(records, type)
    THEN LET data == LastOfType(records, type)
             F(i) == IF Truthy(Get(data, fields[i][1]))
                     THEN <<>> ELSE << <<fields[i][2]>> >>
         IN  F(1) \o F(2)
    ELSE <<>>

_check_warnings(records) ==
    LowConfidenceWarnings(records)
    \o MissingFieldWarnings(records, "hospital_bill",
           << <<"total_amount", "Hospital bill missing total amount">>,
              <<"patient_name", "Hospital bill missing patient name">> >>)
    \o MissingFieldWarnings(records, "discharge_summary",
           << <<"diagnosis", "Discharge summary missing diagnosis">>,
              <<"patient_name", "Discharge summary missing patient name">> >>)
    \o MissingFieldWarnings(records, "insurance_card",
           << <<"policy_number", "Insurance card missing policy number">>,
              <<"sum_insured", "Insurance card missing sum insured amount">> >>)

validate(records) ==
    IF DiscrepancyError(records) # ""
    THEN Raised(DiscrepancyError(records))
    ELSE ValidationResult(_check_missing_documents(records),
                          _check_discrepancies(records),
                          _check_warnings(records))

\* The attributes __init__ gives a ClaimValidator.
ClaimValidator ==
    [required_documents |-> required_documents,
     optional_documents |-> <<"insurance_card">>]

\* validate on the instance self: the required documents are read from self,
\* which holds those of __init__ unless a call has changed them.
validate_on(self, records) ==
    IF IsRaised(validate(records)) \/ self.required_documents = required_documents
    THEN validate(records)
    ELSE [validate(records) EXCEPT
             !.missing_documents = MissingOf(self.required_documents, records)]

\* self after validate, were each required document struck off once it is seen
self_after_validate_consuming(self, records) ==
    [self EXCEPT !.required_documents =
        SelectSeq(@, LAMBDA doc : ~ HasType(records, doc))]

\* self after validate: no method of the validator assigns to an attribute or
\* changes a list it holds.
self_after_validate(self, records) == self

----------------------------------------------------------------------------
(* Document texts *)

\* What _prepare_documents stores as text_content: the coroutine object of the
\* call of the async _extract_text_from_pdf, which it does not await.
Coroutine == [k |-> "coroutine", n |-> 0, s |-> ""]

\* A plain text, by what the code can see of it: kw, the classifier keywords that
\* occur in it (lower-cased), and fields, what the patterns of the agent it is
\* given to find in it (None for a field no pattern matches).
Text(kw, fields) == [k |-> "text", kw |-> kw, fields |-> fields]

\* A filename, by the classifier keywords that occur in it.
Filename(name, kw) == [k |-> "str", name |-> name, kw |-> kw]

\* UploadFile.filename of an upload that carries no name
NoFilename == [k |-> "none", name |-> "", kw |-> {}]

----------------------------------------------------------------------------
(* DocumentClassifier *)

bill_keywords ==
    {"bill", "invoice", "charges", "amount", "total", "hospital", "medical"}

discharge_keywords == {"discharge", "summary", "diagnosis", "admission", "patient"}

insurance_keywords == {"insurance", "policy", "card", "coverage", "premium"}

valid_types == {"hospital_bill", "discharge_summary", "insurance_card", "other"}

ClassifiedDocument(file_id, type, confidence) ==
    [file_id |-> file_id, document_type |-> type, confidence |-> confidence]

\* score / size with no ceiling, in hundredths
KeywordConfidence_uncapped(score, size) == Rat(100 * score, size)

\* min(0.9, score / size), in hundredths
KeywordConfidence(score, size) ==
    IF 100 * score <= 90 * size THEN Rat(100 * score, size) ELSE Rat(90, 1)

_rule_based_classify(file_id, filename, text_content) ==
    IF filename.k # "str"
    THEN Raised("'NoneType' object has no attribute 'lower'")
    ELSE IF text_content.k # "text"
    THEN Raised("'coroutine' object has no attribute 'lower'")
    ELSE LET Score(keywords) ==
                 Cardinality({w \in keywords : w \in filename.kw \/ w \in text_content.kw})
             bill_score == Score(bill_keywords)
             discharge_score == Score(discharge_keywords)
             insurance_score == Score(insurance_keywords)
         IN  IF bill_score >= discharge_score /\ bill_score >= insurance_score
             THEN ClassifiedDocument(file_id, "hospital_bill",
                      KeywordConfidence(bill_score, Cardinality(bill_keywords)))
             ELSE IF discharge_score >= insurance_score
             THEN ClassifiedDocument(file_id, "discharge_summary",
                      KeywordConfidence(discharge_score, Cardinality(discharge_keywords)))
             ELSE IF insurance_score > 0
             THEN ClassifiedDocument(file_id, "insurance_card",
                      KeywordConfidence(insurance_score, Cardinality(insurance_keywords)))
             ELSE ClassifiedDocument(file_id, "other", Rat(10, 1))

\* _llm_classify taking an answer that is not two parts for a document it
\* cannot place
_llm_classify_no_fallback(file_id, filename, text_content, resp) ==
    IF text_content.k # "text"
    THEN Raised("'coroutine' object is not subscriptable")
    ELSE IF resp.shape # "text"
    THEN _rule_based_classify(file_id, filename, text_content)
    ELSE IF resp.parts = 2
    THEN IF resp.conf.k # "num"
         THEN _rule_based_classify(file_id, filename, text_content)
         ELSE IF resp.label \notin valid_types
         THEN ClassifiedDocument(file_id, "other", Rat(10, 1))
         ELSE ClassifiedDocument(file_id, resp.label, Rat(resp.conf.n, 1))
    ELSE ClassifiedDocument(file_id, "other", Rat(10, 1))

\* The backend's answer to the classification prompt is [shape, parts, label,
\* conf]: it raised ("raise"), or its text splits at commas into `parts` parts,
\* the first `label`, the second `conf` (a number of hundredths, or a string
\* that float() rejects).
_llm_classify(file_id, filename, text_content, resp) ==
    IF text_content.k # "text"
    THEN Raised("'coroutine' object is not subscriptable")
    ELSE IF resp.shape # "text"
    THEN _rule_based_classify(file_id, filename, text_content)
    ELSE IF resp.parts = 2
    THEN IF resp.conf.k # "num"
         THEN _rule_based_classify(file_id, filename, text_content)
         ELSE IF resp.label \notin valid_types
         THEN ClassifiedDocument(file_id, "other", Rat(10, 1))
         ELSE ClassifiedDocument(file_id, resp.label, Rat(resp.conf.n, 1))
    ELSE _rule_based_classify(file_id, filename, text_content)

classify(file_id, filename, text_content, backend, resp) ==
    IF backend = "none"
    THEN _rule_based_classify(file_id, filename, text_content)
    ELSE LET r == _llm_classify(file_id, filename, text_content, resp)
         IN  IF IsRaised(r)
             THEN _rule_based_classify(file_id, filename, text_content)
             ELSE r

----------------------------------------------------------------------------
(* BaseAgent, BillAgent, DischargeAgent, InsuranceAgent *)

\* The document types that have an agent.
Agents == {"hospital_bill", "discharge_summary", "insurance_card"}

\* The keys of _rule_based_extract's dict, per agent.
Schema(agent) ==
    CASE agent = "hospital_bill" ->
             {"hospital_name", "total_amount", "date_of_service", "patient_name",
              "admission_date", "discharge_date", "insurance_company",
              "policy_number", "items"}
      [] agent = "discharge_summary" ->
             {"patient_name", "diagnosis", "admission_date", "discharge_date",
              "doctor_name", "hospital_name", "treatment_summary"}
      [] agent = "insurance_card" ->
             {"policy_number", "card_holder_name", "insurance_company",
              "sum_insured", "validity_date"}

\* The backend's answer to an extraction prompt is [shape, obj]: it raised
\* ("raise"); its text has no {...} and is no JSON ("no_json"), is the JSON null
\* ("null"), or is another JSON value that is no object, obj ("scalar"); its
\* {...} is not JSON ("bad_json") or is the JSON object obj ("object").
_extract_json_from_response(resp) ==
    IF resp.shape \in {"scalar", "object"} THEN resp.obj ELSE None

_llm_extract(backend, resp) ==
    IF backend = "none" THEN None
    ELSE IF resp.shape = "raise" THEN None
    ELSE _extract_json_from_response(resp)

\* What re.findall gives for the patterns of a field, one after the other: the
\* matched strings.
Matches(found) == [k |-> "matches", m |-> found]

\* float(match.replace(',', '')) on the matches of the model: the amount, or -1
\* for the ValueError that a match with no digit ends in.
AmountOf(match) ==
    CASE match = "50" -> 50
      [] match = "9,999" -> 9999
      [] match = "10,000" -> 10000
      [] match = "10000." -> 10000
      [] match = "1,00,000" -> 100000
      [] match = "500,000" -> 500000
      [] match = "," -> -1

sum_insured_floor == 10000

\* The test of an amount, were the floor itself discarded too
KeepsAmount_above(amount) == amount > sum_insured_floor

\* `if amount >= 10000`
KeepsAmount(amount) == amount >= sum_insured_floor

\* The list `amounts` after the loops over the matches.
RECURSIVE AmountsOf(_)
AmountsOf(found) ==
    IF found = <<>> THEN <<>>
    ELSE (IF AmountOf(Head(found)) # -1 /\ KeepsAmount(AmountOf(Head(found)))
          THEN <<AmountOf(Head(found))>> ELSE <<>>)
         \o AmountsOf(Tail(found))

\* max(amounts)
RECURSIVE Max(_)
Max(amounts) ==
    IF Len(amounts) = 1 THEN Head(amounts)
    ELSE IF Head(amounts) >= Max(Tail(amounts))
    THEN Head(amounts) ELSE Max(Tail(amounts))

_extract_sum_insured(found) ==
    IF AmountsOf(found) # <<>> THEN Num(Max(AmountsOf(found))) ELSE None

_rule_based_extract(agent, text_content) ==
    [key \in Schema(agent) |->
        LET found == Get(text_content.fields, key)
        IN  IF found.k = "matches" THEN _extract_sum_insured(found.m)
            ELSE IF key = "items" /\ found = None THEN List(0)
            ELSE found]

\* A value json.loads gives that is no dict has no .get
IsDict(v) == DOMAIN v # {"k", "n", "s"}

\* _combine_extraction_results, were it rule_data.update(llm_data)
_combine_extraction_results_update(llm_data, rule_data) ==
    IF llm_data = None THEN rule_data
    ELSE IF ~ IsDict(llm_data) THEN Raised("dictionary update sequence element")
    ELSE llm_data @@ rule_data

_combine_extraction_results(llm_data, rule_data) ==
    IF llm_data = None THEN rule_data
    ELSE IF ~ IsDict(llm_data)
    THEN Raised(CASE llm_data.k = "num"  -> "'int' object has no attribute 'get'"
                  [] llm_data.k = "list" -> "'list' object has no attribute 'get'"
                  [] OTHER               -> "'str' object has no attribute 'get'")
    ELSE [key \in DOMAIN rule_data |-> Or(Get(llm_data, key), rule_data[key])]

\* The weights of _calculate_confidence, in hundredths; date_of_service stands
\* for `date_of_service or admission_date`.
Weights(agent) ==
    CASE agent = "hospital_bill" ->
             << <<"hospital_name", 20>>, <<"total_amount", 20>>, <<"patient_name", 15>>,
                <<"date_of_service", 15>>, <<"insurance_company", 10>>,
                <<"policy_number", 10>>, <<"items", 10>> >>
      [] agent = "discharge_summary" ->
             << <<"patient_name", 20>>, <<"diagnosis", 25>>, <<"admission_date", 15>>,
                <<"discharge_date", 15>>, <<"doctor_name", 10>>, <<"hospital_name", 10>>,
                <<"treatment_summary", 5>> >>
      [] agent = "insurance_card" ->
             << <<"policy_number", 30>>, <<"card_holder_name", 25>>,
                <<"insurance_company", 25>>, <<"sum_insured", 15>>,
                <<"validity_date", 5>> >>

\* Whether the `if` of a weighted field holds.
Counts(agent, data, key) ==
    IF agent = "hospital_bill" /\ key = "date_of_service"
    THEN Truthy(Get(data, "date_of_service")) \/ Truthy(Get(data, "admission_date"))
    ELSE Truthy(Get(data, key))

\* the score, were each weight assigned to it instead of added
RECURSIVE ScoreUpTo_assign(_, _, _)
ScoreUpTo_assign(agent, data, i) ==
    IF i = 0 THEN 0
    ELSE IF Counts(agent, data, Weights(agent)[i][1])
    THEN Weights(agent)[i][2]
    ELSE ScoreUpTo_assign(agent, data, i - 1)

\* score after the first i weighted fields
RECURSIVE ScoreUpTo(_, _, _)
ScoreUpTo(agent, data, i) ==
    IF i = 0 THEN 0
    ELSE ScoreUpTo(agent, data, i - 1)
         + (IF Counts(agent, data, Weights(agent)[i][1])
            THEN Weights(agent)[i][2] ELSE 0)

\* len(data['items']) of the bill's last check, for items that are a number
ConfidenceError(agent, data) ==
    IF agent = "hospital_bill" /\ Get(data, "items").k = "num" /\ Truthy(Get(data, "items"))
    THEN "object of type 'int' has no len()"
    ELSE ""

_calculate_confidence(agent, data) ==
    Min(ScoreUpTo(agent, data, Len(Weights(agent))), 100)

ExtractedData(type, data, confidence, raw_text) ==
    [document_type |-> type, data |-> data,
     extraction_confidence |-> confidence, raw_text |-> raw_text]

\* BillAgent.extract_data, DischargeAgent.extract_data, InsuranceAgent.extract_data
extract_data(agent, text_content, backend, resp) ==
    LET llm_data == _llm_extract(backend, resp)
        rule_based_data == _rule_based_extract(agent, text_content)
        final_data == _combine_extraction_results(llm_data, rule_based_data)
        confidence == _calculate_confidence(agent, final_data)
    IN  IF text_content.k # "text"
        THEN Raised("expected string or bytes-like object")
        ELSE IF IsRaised(final_data) THEN final_data
        ELSE IF ConfidenceError(agent, final_data) # ""
        THEN Raised(ConfidenceError(agent, final_data))
        ELSE ExtractedData(agent, final_data, confidence, text_content)

----------------------------------------------------------------------------
(* ClaimProcessor *)

NoResponse == [kind |-> "none"]

\* _format_documents_response, were the documents keyed by their type: one
\* entry per type, that of its last record
_format_documents_response_by_type(records) ==
    LET last == {i \in 1..Len(records) :
                    \A j \in 1..Len(records) :
                        records[j].document_type = records[i].document_type => j <= i}
        entries == [i \in 1..Len(records) |->
                       [type |-> records[i].document_type,
                        data |-> records[i].data,
                        confidence |-> records[i].extraction_confidence,
                        kept |-> i \in last]]
        kept == SelectSeq(entries, LAMBDA e : e.kept)
    IN  [i \in 1..Len(kept) |->
            [type |-> kept[i].type, data |-> kept[i].data,
             confidence |-> kept[i].confidence]]

\* documents["document_i"] is the i-th entry
_format_documents_response(records) ==
    [i \in 1..Len(records) |->
        [type |-> records[i].document_type,
         data |-> records[i].data,
         confidence |-> records[i].extraction_confidence]]

ProcessClaimResponse(documents, validation, decision, summary) ==
    [kind |-> "response", documents |-> documents, validation |-> validation,
     claim_decision |-> decision, processing_summary |-> summary]

\* process_claim, were its except clause to raise the exception again
process_claim_except_reraise(e) == [response |-> NoResponse, propagated |-> e]

\* The except clause of process_claim: the response returned for exception e,
\* and what leaves the call.
process_claim_except(e) ==
    [response |->
        ProcessClaimResponse(<<>>,
            ValidationResult(<<>>, << <<"Processing error: ", e>> >>, <<>>),
            ClaimDecision("rejected",
                <<"Unable to process claim due to error: ", e>>,
                Rat(0, 1), None),
            <<>>),
     propagated |-> ""]

----------------------------------------------------------------------------
(* Inputs *)

MaxDocs == 2

\* the records of a claim whose decision a model is asked for
MaxDocsWithModel == 1

\* the fields the patterns find in a text given to an agent with a model
MaxPatternFields == 1

\* the keys of the schema in a JSON object the model answers with
MaxModelKeys == 2

NameSamples == {None, Str("Asha Rao")}

AmountSamples ==
    {None, Num(50000), Num(1000000), Num(1000001), Str("fifty thousand")}

NoText == Text({}, <<>>)

Record(type, data, confidence) == ExtractedData(type, data, confidence, NoText)

DecisionRecords ==
    {Record("hospital_bill",
                   [patient_name |-> nm, total_amount |-> amt], c) :
        nm \in NameSamples, amt \in AmountSamples, c \in {30, 60}}
    \cup {Record("discharge_summary", [patient_name |-> nm], c) :
        nm \in NameSamples, c \in {0, 60}}
    \cup {Record("discharge_summary", [patient_name |-> Num(12345)], 60),
          Record("insurance_card", [card_holder_name |-> Str("Asha Rao")], 30),
          Record("other", <<>>, 0)}

SeqsUpTo(S, n) == UNION {[1..m -> S] : m \in 0..n}

MissingSamples ==
    {<<>>, <<MissingEntry("hospital_bill")>>, <<MissingEntry("discharge_summary")>>,
     <<MissingEntry("hospital_bill"), MissingEntry("discharge_summary")>>}

DiscrepancySamples ==
    << <<"Patient name mismatch across documents: ", "hospital_bill", ": ", "A B",
         ", ", "discharge_summary", ": ", "C D">>,
       <<"Admission date mismatch: Bill shows ", "2024-01-01",
         ", Discharge summary shows ", "2024-01-02">>,
       <<"Discharge date mismatch: Bill shows ", "2024-01-05",
         ", Discharge summary shows ", "2024-01-06">>,
       <<"Hospital name mismatch: ", "hospital_bill", ": ", "Apollo",
         ", ", "discharge_summary", ": ", "Fortis">>,
       <<"Insurance company mismatch: Bill shows ", "ACKO", ", Card shows ", "SBI">> >>

ValidationSamples ==
    {ValidationResult(m, SubSeq(DiscrepancySamples, 1, d), w) :
        m \in MissingSamples, d \in {0, 2, 3, 5},
        w \in {<<>>, << <<"Hospital bill missing total amount">> >>}}

NoAnswer == [shape |-> "none", obj |-> <<>>]

DecisionObjects ==
    {[status |-> Str("approved"), reason |-> Str("AI: covered"),
      confidence |-> Num(85), recommended_amount |-> Num(12345)],
     [status |-> Str("rejected"), reason |-> Str("AI: not covered")],
     [status |-> Str("pending"), reason |-> Str(""), confidence |-> Num(40),
      recommended_amount |-> None],
     [status |-> Str("maybe"), reason |-> Str("AI: unsure"), confidence |-> Num(50)],
     [status |-> Str("approved")],
     [status |-> Str("approved"), reason |-> Str("AI: certain"),
      confidence |-> Num(8500)],
     [status |-> Str("approved"), reason |-> Str("AI: covered"), confidence |-> None],
     [status |-> Str("approved"), reason |-> Str("AI: covered"),
      recommended_amount |-> Str("all of it")],
     <<>>}

ClassifyAnswers ==
    {[shape |-> "raise", parts |-> 0, label |-> "", conf |-> None]}
    \cup {[shape |-> "text", parts |-> p, label |-> l, conf |-> c] :
             p \in {1, 2, 3}, l \in {"insurance_card", "receipt"},
             c \in {Num(95), Num(9500), Str("high")}}

\* What the patterns find for a field, and what the model answers for it.
PatternValue(key) ==
    CASE key \in {"total_amount", "sum_insured"} -> Num(50000)
      [] key = "items" -> List(2)
      [] OTHER -> Str("from the patterns")

ModelValue(key) ==
    CASE key \in {"total_amount", "sum_insured"} -> Num(42000)
      [] key = "items" -> List(1)
      [] OTHER -> Str("from the model")

\* The kinds of value a model gives for a field: null, the falsy value of the
\* field's type, a value, and for the items a number in place of the list.
KindsOf(key) ==
    CASE key \in {"total_amount", "sum_insured"} -> {"null", "zero", "value"}
      [] key = "items" -> {"null", "empty", "value", "number"}
      [] OTHER -> {"null", "empty", "value"}

ValueOfKind(key, kind) ==
    CASE kind = "null"   -> None
      [] kind = "zero"   -> Num(0)
      [] kind = "empty"  -> IF key = "items" THEN List(0) ELSE Str("")
      [] kind = "value"  -> ModelValue(key)
      [] kind = "number" -> Num(3)

\* The JSON objects a model answers with: up to MaxModelKeys keys of the
\* schema, with or without a key that is not in the schema.
ModelObjects(agent) ==
    UNION {{[key \in keys |-> ValueOfKind(key, kinds[key])] @@ extra :
               kinds \in {g \in [keys -> {"null", "zero", "empty", "value", "number"}] :
                            \A key \in keys : g[key] \in KindsOf(key)},
               extra \in {<<>>, [notes |-> Str("see the attachment")]}} :
              keys \in {ks \in SUBSET Schema(agent) : Cardinality(ks) <= MaxModelKeys}}

ExtractAnswers(agent) ==
    {[shape |-> sh, obj |-> None] : sh \in {"raise", "no_json", "null", "bad_json"}}
    \cup {[shape |-> "scalar", obj |-> v] : v \in {Num(42), Num(0), List(2), Str("n/a")}}
    \cup {[shape |-> "object", obj |-> o] : o \in ModelObjects(agent)}

\* The uploads: the name, the declared type, how a run of pdftotext on the file
\* would end (it prints the text, exits with a non-zero status, or is not
\* installed), and the text it would print.
FileSamples ==
    {[filename |-> Filename("hospital_bill.pdf", {"bill", "hospital"}),
      content_type |-> "application/pdf",
      pdftotext |-> "ok",
      pdf |-> Text({"bill", "total", "amount", "patient"},
                   [patient_name |-> Str("Asha Rao"), total_amount |-> Num(50000)])],
     [filename |-> Filename("discharge_summary.pdf", {"discharge", "summary"}),
      content_type |-> "application/pdf",
      pdftotext |-> "not installed",
      pdf |-> Text({"discharge", "diagnosis", "patient"},
                   [patient_name |-> Str("Asha Rao"), diagnosis |-> Str("Fever")])],
     [filename |-> Filename("scan.pdf", {}),
      content_type |-> "application/pdf",
      pdftotext |-> "exit status 1",
      pdf |-> Text({}, <<>>)],
     [filename |-> NoFilename,
      content_type |-> "application/octet-stream",
      pdftotext |-> "ok",
      pdf |-> Text({"insurance", "policy"}, [policy_number |-> Str("POL12345678")])]}

DecisionAnswers ==
    {[shape |-> s, obj |-> <<>>] : s \in {"raise", "no_braces", "bad_json"}}
    \cup {[shape |-> "object", obj |-> o] : o \in DecisionObjects}

----------------------------------------------------------------------------
(* The steps of process_claim *)

NoException == [stage |-> "", msg |-> ""]

\* The message of the failure the environment causes in a stage.
Unexpected(stage) ==
    CASE stage = "prepare"  -> "[Errno 28] No space left on device"
      [] stage = "classify" -> "classifier unavailable"
      [] stage = "extract"  -> "extractor unavailable"
      [] stage = "validate" -> "validator unavailable"
      [] stage = "decide"   -> "decision engine unavailable"

\* An exception e of a stage reaches the except clause of process_claim.
Fail(stage, e) ==
    /\ raised' = [stage |-> stage, msg |-> e]
    /\ response' = process_claim_except(e).response
    /\ propagated' = process_claim_except(e).propagated
    /\ pc' = "done"

\* The backend calls of a stage, in order: one entry per answer given.
Calls(call, resps) ==
    SelectSeq([i \in 1..Len(resps) |-> [call |-> call, resp |-> resps[i]]],
              LAMBDA e : e.resp # NoAnswer)

\* The sequences whose i-th element is drawn from the i-th set.
RECURSIVE Product(_)
Product(sets) ==
    IF sets = <<>> THEN {<<>>}
    ELSE {<<h>> \o t : h \in Head(sets), t \in Product(Tail(sets))}

\* The index of the first document a stage fails on, n + 1 if there is none.
FirstFailure(results) ==
    LET failed == {i \in 1..Len(results) : IsRaised(results[i])}
    IN  IF failed = {} THEN Len(results) + 1
        ELSE CHOOSE i \in failed : \A j \in failed : i <= j

\* Step 1: _prepare_documents. Each upload gets a temporary file and the
\* coroutine object of _extract_text_from_pdf as its text_content.
PrepareDocuments ==
    /\ pc = "start"
    /\ IF fault = "prepare" /\ Len(files) > 0
       THEN /\ temp_files' = {1}
            /\ Fail("prepare", Unexpected("prepare"))
            /\ UNCHANGED documents_data
       ELSE /\ documents_data' =
                [i \in 1..Len(files) |->
                    [file_id |-> i, filename |-> files[i].filename,
                     content_type |-> files[i].content_type,
                     temp_path |-> i, text_content |-> Coroutine]]
            /\ temp_files' = 1..Len(files)
            /\ pc' = "prepared"
            /\ UNCHANGED <<response, propagated, raised>>
    /\ UNCHANGED <<model, files, classified_docs, extracted_data, validation_result,
                   claim_decision, llm_log, fault, validator, validations>>

ClassifyAsksBackend(doc, backend) ==
    backend # "none" /\ doc.text_content.k = "text"

\* Step 2: _classify_documents.
ClassifyDocuments ==
    /\ pc = "prepared"
    /\ \E resps \in Product([i \in 1..Len(documents_data) |->
                   IF ClassifyAsksBackend(documents_data[i], model)
                   THEN ClassifyAnswers \cup {NoAnswer} ELSE {NoAnswer}]) :
        LET n == Len(documents_data)
            results ==
                [i \in 1..n |->
                    classify(documents_data[i].file_id, documents_data[i].filename,
                             documents_data[i].text_content, model, resps[i])]
            reached == IF fault = "classify" THEN 0 ELSE FirstFailure(results)
        IN  /\ \A i \in 1..n :
                resps[i] # NoAnswer
                    <=> (i <= reached /\ ClassifyAsksBackend(documents_data[i], model))
            /\ llm_log' = llm_log \o Calls("classify", resps)
            /\ IF fault = "classify"
               THEN Fail("classify", Unexpected("classify")) /\ UNCHANGED classified_docs
               ELSE IF reached <= n
               THEN Fail("classify", results[reached].exc) /\ UNCHANGED classified_docs
               ELSE /\ classified_docs' = results
                    /\ pc' = "classified"
                    /\ UNCHANGED <<response, propagated, raised>>
    /\ UNCHANGED <<model, files, documents_data, extracted_data, validation_result,
                   claim_decision, temp_files, fault, validator, validations>>

ExtractAsksBackend(type, doc, backend) ==
    backend # "none" /\ type \in Agents /\ doc.text_content.k = "text"

\* Step 3: _extract_data, the agent chosen by the classified type.
ExtractData ==
    /\ pc = "classified"
    /\ \E resps \in Product([i \in 1..Len(classified_docs) |->
                   IF ExtractAsksBackend(classified_docs[i].document_type,
                          documents_data[classified_docs[i].file_id], model)
                   THEN ExtractAnswers(classified_docs[i].document_type) \cup {NoAnswer}
                   ELSE {NoAnswer}]) :
        LET n == Len(classified_docs)
            doc_data(i) == documents_data[classified_docs[i].file_id]
            type(i) == classified_docs[i].document_type
            results ==
                [i \in 1..n |->
                    IF type(i) \in Agents
                    THEN extract_data(type(i), doc_data(i).text_content, model, resps[i])
                    ELSE ExtractedData("other", <<>>, 0, doc_data(i).text_content)]
            reached == IF fault = "extract" THEN 0 ELSE FirstFailure(results)
        IN  /\ \A i \in 1..n :
                resps[i] # NoAnswer
                    <=> (i <= reached /\ ExtractAsksBackend(type(i), doc_data(i), model))
            /\ llm_log' = llm_log \o Calls("extract", resps)
            /\ IF fault = "extract"
               THEN Fail("extract", Unexpected("extract")) /\ UNCHANGED extracted_data
               ELSE IF reached <= n
               THEN Fail("extract", results[reached].exc) /\ UNCHANGED extracted_data
               ELSE /\ extracted_data' = results
                    /\ pc' = "extracted"
                    /\ UNCHANGED <<response, propagated, raised>>
    /\ UNCHANGED <<model, files, documents_data, classified_docs, validation_result,
                   claim_decision, temp_files, fault, validator, validations>>

\* The records after a stage, were the validator to store each patient name as
\* it normalizes it for the comparison
extracted_data_after_normalizing(stage, records) ==
    [i \in 1..Len(records) |->
        IF /\ stage = "validate"
           /\ "patient_name" \in DOMAIN records[i].data
           /\ records[i].data.patient_name.k = "str"
        THEN [records[i] EXCEPT !.data.patient_name =
                 Str(LowerCollapse(records[i].data.patient_name.s))]
        ELSE records[i]]

\* The records after validate ("validate") and after make_decision ("decide"):
\* the two and their helpers read the records and their data, and assign to
\* neither.
extracted_data_after(stage, records) == records

\* The report after make_decision, which reads its three lists (the
\* discrepancies through a slice) and assigns to none.
validation_result_after(validation) == validation

\* Step 4: _validate_data.
ValidateData ==
    /\ pc = "extracted"
    /\ LET result == validate_on(validator, extracted_data)
           called ==
               /\ validator' = self_after_validate(validator, extracted_data)
               /\ validations' =
                      Append(validations,
                             [records |-> extracted_data, result |-> result])
       IN  IF fault = "validate"
           THEN /\ Fail("validate", Unexpected("validate"))
                /\ UNCHANGED <<validation_result, validator, validations>>
           ELSE IF IsRaised(result)
           THEN Fail("validate", result.exc) /\ called /\ UNCHANGED validation_result
           ELSE /\ validation_result' = result
                /\ called
                /\ pc' = "validated"
                /\ UNCHANGED <<response, propagated, raised>>
    /\ extracted_data' = IF fault = "validate" THEN extracted_data
                         ELSE extracted_data_after("validate", extracted_data)
    /\ UNCHANGED <<model, files, documents_data, classified_docs,
                   claim_decision, llm_log, temp_files, fault>>

\* Step 5 and 6: make_decision, which handles its own exceptions, then the
\* response.
MakeDecision ==
    /\ pc = "validated"
    /\ \E resp \in DecisionAnswers \cup {NoAnswer} :
        LET rule_decision == _rule_based_decision(extracted_data, validation_result)
            asked == /\ fault # "decide"
                     /\ DecisionAsksBackend(extracted_data, validation_result, model)
            decision ==
                IF fault = "decide"
                THEN make_decision_except(Unexpected("decide"))
                ELSE make_decision(extracted_data, validation_result, model, resp)
        IN  /\ resp # NoAnswer <=> asked
            /\ claim_decision' = decision
            /\ llm_log' = llm_log \o Calls("decide", <<resp>>)
            /\ raised' = IF fault = "decide"
                         THEN [stage |-> "decide", msg |-> Unexpected("decide")]
                         ELSE IF IsRaised(rule_decision)
                         THEN [stage |-> "decide", msg |-> rule_decision.exc]
                         ELSE raised
            /\ extracted_data' = IF fault = "decide" THEN extracted_data
                                 ELSE extracted_data_after("decide", extracted_data)
            /\ validation_result' = IF fault = "decide" THEN validation_result
                                    ELSE validation_result_after(validation_result)
            /\ response' = ProcessClaimResponse(
                               _format_documents_response(extracted_data'),
                               validation_result', decision,
                               [total_documents |-> Len(files),
                                classified_documents |-> Len(classified_docs),
                                extracted_documents |-> Len(extracted_data')])
    /\ pc' = "done"
    /\ UNCHANGED <<model, files, documents_data, classified_docs, propagated,
                   temp_files, fault, validator, validations>>

----------------------------------------------------------------------------
(* process_claim on uploaded files *)

Stages == {"prepare", "classify", "extract", "validate", "decide"}

Init ==
    /\ pc = "start"
    /\ model \in {"none", "configured"}
    /\ files \in SeqsUpTo(FileSamples, MaxDocs)
    /\ fault \in {"none"} \cup Stages
    /\ documents_data = <<>>
    /\ classified_docs = <<>>
    /\ extracted_data = <<>>
    /\ validation_result = NoResponse
    /\ claim_decision = NoResponse
    /\ llm_log = <<>>
    /\ response = NoResponse
    /\ propagated = ""
    /\ temp_files = {}
    /\ raised = NoException
    /\ validator = ClaimValidator
    /\ validations = <<>>

Next ==
    \/ PrepareDocuments
    \/ ClassifyDocuments
    \/ ExtractData
    \/ ValidateData
    \/ MakeDecision

Spec == Init /\ [][Next]_vars

----------------------------------------------------------------------------
(* The extractors on plain texts *)

InitExtract ==
    /\ pc = "classified"
    /\ \E agent \in Agents \cup {"other"} :
        \E populated \in SUBSET (IF agent = "other" THEN {} ELSE Schema(agent)) :
            /\ \/ model = "none"
               \/ /\ model = "configured"
                  /\ \/ Cardinality(populated) <= MaxPatternFields
                     \/ agent # "other" /\ populated = Schema(agent)
            /\ documents_data =
                   << [file_id |-> 1, filename |-> Filename("claim.pdf", {}),
                       content_type |-> "application/pdf", temp_path |-> 1,
                       text_content |->
                           Text({}, [key \in populated |-> PatternValue(key)])] >>
            /\ classified_docs = << ClassifiedDocument(1, agent, Rat(90, 1)) >>
    /\ files = <<>>
    /\ fault = "none"
    /\ extracted_data = <<>>
    /\ validation_result = NoResponse
    /\ claim_decision = NoResponse
    /\ llm_log = <<>>
    /\ response = NoResponse
    /\ propagated = ""
    /\ temp_files = {}
    /\ raised = NoException
    /\ validator = ClaimValidator
    /\ validations = <<>>

SpecExtract == InitExtract /\ [][ExtractData]_vars

\* The extractors with no model, on the texts of every pattern result.
InitPatterns == InitExtract /\ model = "none"

SpecPatterns == InitPatterns /\ [][ExtractData]_vars

----------------------------------------------------------------------------
(* The validator and the decision engine on arbitrary records *)

InitValidate ==
    /\ pc = "extracted"
    /\ \/ /\ model = "none"
          /\ extracted_data \in SeqsUpTo(DecisionRecords, MaxDocs)
       \/ /\ model = "configured"
          /\ extracted_data \in SeqsUpTo(DecisionRecords, MaxDocsWithModel)
    /\ validation_result = NoResponse
    /\ files = <<>>
    /\ fault = "none"
    /\ documents_data = <<>>
    /\ classified_docs = <<>>
    /\ claim_decision = NoResponse
    /\ llm_log = <<>>
    /\ response = NoResponse
    /\ propagated = ""
    /\ temp_files = {}
    /\ raised = NoException
    /\ validator = ClaimValidator
    /\ validations = <<>>

NextValidate == ValidateData \/ MakeDecision

SpecValidate == InitValidate /\ [][NextValidate]_vars

----------------------------------------------------------------------------
(* The decision engine on arbitrary records and reports *)

InitDecide ==
    /\ pc = "validated"
    /\ \/ /\ model = "none"
          /\ extracted_data \in SeqsUpTo(DecisionRecords, MaxDocs)
       \/ /\ model = "configured"
          /\ extracted_data \in SeqsUpTo(DecisionRecords, MaxDocsWithModel)
    /\ validation_result \in ValidationSamples
    /\ files = <<>>
    /\ fault = "none"
    /\ documents_data = <<>>
    /\ classified_docs = <<>>
    /\ claim_decision = NoResponse
    /\ llm_log = <<>>
    /\ response = NoResponse
    /\ propagated = ""
    /\ temp_files = {}
    /\ raised = NoException
    /\ validator = ClaimValidator
    /\ validations = <<>>

SpecDecide == InitDecide /\ [][MakeDecision]_vars

----------------------------------------------------------------------------
(* The validator of one processor over several claims *)

\* the claims whose records reach the validator of one processor
MaxCalls == 3

AshaBill == Record("hospital_bill",
                   [patient_name |-> Str("Asha Rao"), total_amount |-> Num(50000)], 60)

RevalidateSamples ==
    {<<>>,
     <<AshaBill>>,
     <<Record("discharge_summary", [patient_name |-> Str("Asha Rao")], 60)>>,
     <<AshaBill, Record("discharge_summary", [patient_name |-> Str("ASHA RAO")], 60)>>,
     <<AshaBill, Record("discharge_summary", [patient_name |-> Str("John Smith")], 30)>>,
     <<Record("discharge_summary", [patient_name |-> Str("John Smith")], 30), AshaBill>>,
     <<AshaBill, Record("discharge_summary", [patient_name |-> Num(12345)], 60)>>,
     <<AshaBill,
       Record("insurance_card", [card_holder_name |-> Str("John Smith")], 30)>>}

\* The module-level processor of main.py takes the next claim; its records
\* arrive at the validator the earlier claims went through.
NextClaim ==
    /\ pc \in {"validated", "done"}
    /\ Len(validations) < MaxCalls
    /\ extracted_data' \in RevalidateSamples
    /\ pc' = "extracted"
    /\ validation_result' = NoResponse
    /\ response' = NoResponse
    /\ propagated' = ""
    /\ raised' = NoException
    /\ UNCHANGED <<model, files, documents_data, classified_docs, claim_decision,
                   llm_log, temp_files, fault, validator, validations>>

InitRevalidate ==
    /\ pc = "extracted"
    /\ model = "none"
    /\ extracted_data \in RevalidateSamples
    /\ validation_result = NoResponse
    /\ files = <<>>
    /\ fault = "none"
    /\ documents_data = <<>>
    /\ classified_docs = <<>>
    /\ claim_decision = NoResponse
    /\ llm_log = <<>>
    /\ response = NoResponse
    /\ propagated = ""
    /\ temp_files = {}
    /\ raised = NoException
    /\ validator = ClaimValidator
    /\ validations = <<>>

NextRevalidate == ValidateData \/ NextClaim

SpecRevalidate == InitRevalidate /\ [][NextRevalidate]_vars

----------------------------------------------------------------------------
(* The validator on records that carry names *)

PatientNameSamples ==
    {None, Str(""), Str("Asha Rao"), Str("ASHA RAO"), Str("asha  rao"),
     Str("John Smith"), Num(12345)}

\* At most one record of each type, in the order of upload: the bill, the
\* discharge summary, the insurance card.
NameLists ==
    LET bills == {<<>>} \cup
            {<<Record("hospital_bill",
                      [patient_name |-> nm, hospital_name |-> Str("Apollo Hospital")],
                      60)>> : nm \in PatientNameSamples}
        discharges == {<<>>} \cup
            {<<Record("discharge_summary",
                      [patient_name |-> nm, hospital_name |-> h], 60)>> :
                nm \in PatientNameSamples,
                h \in {Str("Apollo Medical Centre"), Str("Fortis Hospital")}}
        cards == {<<>>} \cup
            {<<Record("insurance_card", [card_holder_name |-> nm], 60)>> :
                nm \in PatientNameSamples}
    IN  {b \o d \o c : b \in bills, d \in discharges, c \in cards}

InitNames ==
    /\ pc = "extracted"
    /\ model = "none"
    /\ extracted_data \in NameLists
    /\ validation_result = NoResponse
    /\ files = <<>>
    /\ fault = "none"
    /\ documents_data = <<>>
    /\ classified_docs = <<>>
    /\ claim_decision = NoResponse
    /\ llm_log = <<>>
    /\ response = NoResponse
    /\ propagated = ""
    /\ temp_files = {}
    /\ raised = NoException
    /\ validator = ClaimValidator
    /\ validations = <<>>

SpecNames == InitNames /\ [][ValidateData]_vars

----------------------------------------------------------------------------
(* The rule-based decision on claims near approval *)

\* the records of a claim that is decided by the rules alone
MaxApprovalDocs == 3

ApprovalRecords ==
    LET Bill(nm, amt, c) ==
            Record("hospital_bill", [patient_name |-> nm, total_amount |-> amt], c)
    IN  {Bill(Str("Asha Rao"), Num(50000), 90),
         Bill(Str("Asha Rao"), Num(50000), 31),
         Bill(Str("Asha Rao"), Num(1000000), 30),
         Bill(Str("Asha Rao"), Num(1000001), 90),
         Bill(Str("Asha Rao"), Num(0), 90),
         Bill(Str("Asha Rao"), Str("fifty thousand"), 90),
         Bill(None, Num(50000), 90),
         Record("discharge_summary",
                [patient_name |-> Str("Asha Rao"), diagnosis |-> Str("Fracture")], 80),
         Record("discharge_summary", [patient_name |-> Str("Asha Rao")], 30),
         Record("discharge_summary", [patient_name |-> None], 29),
         Record("insurance_card", [card_holder_name |-> Str("Asha Rao")], 70),
         Record("other", <<>>, 0)}

ApprovalReports ==
    {ValidationResult(m, SubSeq(DiscrepancySamples, 1, d), w) :
        m \in {<<>>, <<MissingEntry("discharge_summary")>>}, d \in {0, 2, 3},
        w \in {<<>>, << <<"Hospital bill missing total amount">> >>}}

InitApprove ==
    /\ pc = "validated"
    /\ model = "none"
    /\ extracted_data \in SeqsUpTo(ApprovalRecords, MaxApprovalDocs)
    /\ validation_result \in ApprovalReports
    /\ files = <<>>
    /\ fault = "none"
    /\ documents_data = <<>>
    /\ classified_docs = <<>>
    /\ claim_decision = NoResponse
    /\ llm_log = <<>>
    /\ response = NoResponse
    /\ propagated = ""
    /\ temp_files = {}
    /\ raised = NoException
    /\ validator = ClaimValidator
    /\ validations = <<>>

SpecApprove == InitApprove /\ [][MakeDecision]_vars

----------------------------------------------------------------------------
(* The insurance agent on the amounts of a text *)

\* the matches of the sum-insured patterns in a text
MaxMatches == 3

MatchSamples == {"50", "9,999", "10,000", "10000.", "1,00,000", "500,000", ","}

InitSumInsured ==
    /\ pc = "classified"
    /\ model = "none"
    /\ \E found \in SeqsUpTo(MatchSamples, MaxMatches) :
          documents_data =
              << [file_id |-> 1, filename |-> Filename("card.pdf", {"card"}),
                  content_type |-> "application/pdf", temp_path |-> 1,
                  text_content |->
                      Text({}, [sum_insured |-> Matches(found),
                                policy_number |-> Str("POL12345678")])] >>
    /\ classified_docs = << ClassifiedDocument(1, "insurance_card", Rat(90, 1)) >>
    /\ files = <<>>
    /\ fault = "none"
    /\ extracted_data = <<>>
    /\ validation_result = NoResponse
    /\ claim_decision = NoResponse
    /\ llm_log = <<>>
    /\ response = NoResponse
    /\ propagated = ""
    /\ temp_files = {}
    /\ raised = NoException
    /\ validator = ClaimValidator
    /\ validations = <<>>

SpecSumInsured == InitSumInsured /\ [][ExtractData]_vars

----------------------------------------------------------------------------
(* The classifier on plain texts *)

\* One set of keywords of each size there is.
HitSamples(keywords) ==
    {CHOOSE hits \in SUBSET keywords : Cardinality(hits) = n :
        n \in 0..Cardinality(keywords)}

\* The texts, by the keywords that occur in them.
KeywordTexts ==
    {Text(b \cup d \cup i, <<>>) :
        b \in HitSamples(bill_keywords), d \in HitSamples(discharge_keywords),
        i \in HitSamples(insurance_keywords)}

ClassifyFilenames ==
    {Filename("scan.pdf", {}),
     Filename("hospital_bill.pdf", {"bill", "hospital"}),
     Filename("insurance_card.pdf", {"insurance", "card"}),
     NoFilename}

InitClassify ==
    /\ pc = "prepared"
    /\ model \in {"none", "configured"}
    /\ \E filename \in ClassifyFilenames, text_content \in KeywordTexts :
          documents_data =
              << [file_id |-> 1, filename |-> filename,
                  content_type |-> "application/pdf", temp_path |-> 1,
                  text_content |-> text_content] >>
    /\ files = <<>>
    /\ fault = "none"
    /\ classified_docs = <<>>
    /\ extracted_data = <<>>
    /\ validation_result = NoResponse
    /\ claim_decision = NoResponse
    /\ llm_log = <<>>
    /\ response = NoResponse
    /\ propagated = ""
    /\ temp_files = {}
    /\ raised = NoException
    /\ validator = ClaimValidator
    /\ validations = <<>>

SpecClassify == InitClassify /\ [][ClassifyDocuments]_vars

----------------------------------------------------------------------------
(* _extract_data one document at a time, then validation and decision *)

\* `for classified_doc in classified_docs`, were the last document left out
MoreToExtract_but_last(done, n) == done < n - 1

\* `for classified_doc in classified_docs`: there is a document left after the
\* `done` records appended so far.
MoreToExtract(done, n) == done < n

\* One turn of the loop of _extract_data: the agent of the next document's type
\* is awaited and its record appended.
ExtractOne ==
    /\ pc = "classified"
    /\ MoreToExtract(Len(extracted_data), Len(classified_docs))
    /\ LET classified_doc == classified_docs[Len(extracted_data) + 1]
           type == classified_doc.document_type
           doc_data == documents_data[classified_doc.file_id]
       IN  \E resp \in (IF ExtractAsksBackend(type, doc_data, model)
                        THEN ExtractAnswers(type) ELSE {NoAnswer}) :
             LET extracted ==
                     IF type \in Agents
                     THEN extract_data(type, doc_data.text_content, model, resp)
                     ELSE ExtractedData("other", <<>>, 0, doc_data.text_content)
             IN  /\ llm_log' = llm_log \o Calls("extract", <<resp>>)
                 /\ IF fault = "extract"
                    THEN Fail("extract", Unexpected("extract"))
                         /\ UNCHANGED extracted_data
                    ELSE IF IsRaised(extracted)
                    THEN Fail("extract", extracted.exc) /\ UNCHANGED extracted_data
                    ELSE /\ extracted_data' = Append(extracted_data, extracted)
                         /\ UNCHANGED <<pc, response, propagated, raised>>
    /\ UNCHANGED <<model, files, documents_data, classified_docs, validation_result,
                   claim_decision, temp_files, fault, validator, validations>>

\* The loop is over: _extract_data returns the records to process_claim.
ExtractReturn ==
    /\ pc = "classified"
    /\ ~ MoreToExtract(Len(extracted_data), Len(classified_docs))
    /\ pc' = "extracted"
    /\ UNCHANGED <<model, files, documents_data, classified_docs, extracted_data,
                   validation_result, claim_decision, llm_log, response, propagated,
                   temp_files, fault, raised, validator, validations>>

\* The classified documents of a claim: a text and the type it was given.
JoinDocuments ==
    {[text_content |-> f.pdf, document_type |-> type] :
        f \in FileSamples, type \in valid_types}

InitJoin ==
    /\ pc = "classified"
    /\ model = "none"
    /\ fault \in {"none", "extract", "validate", "decide"}
    /\ \E docs \in SeqsUpTo(JoinDocuments, MaxDocs) :
          /\ documents_data =
                 [i \in 1..Len(docs) |->
                     [file_id |-> i, filename |-> Filename("claim.pdf", {}),
                      content_type |-> "application/pdf", temp_path |-> i,
                      text_content |-> docs[i].text_content]]
          /\ classified_docs =
                 [i \in 1..Len(docs) |->
                     ClassifiedDocument(i, docs[i].document_type, Rat(90, 1))]
    /\ files = <<>>
    /\ extracted_data = <<>>
    /\ validation_result = NoResponse
    /\ claim_decision = NoResponse
    /\ llm_log = <<>>
    /\ response = NoResponse
    /\ propagated = ""
    /\ temp_files = {}
    /\ raised = NoException
    /\ validator = ClaimValidator
    /\ validations = <<>>

NextJoin == ExtractOne \/ ExtractReturn \/ ValidateData \/ MakeDecision

SpecJoin == InitJoin /\ [][NextJoin]_vars

----------------------------------------------------------------------------
(* process_claim from classification on, on documents that hold their text *)

InitFromTexts ==
    /\ pc = "prepared"
    /\ model = "none"
    /\ files \in SeqsUpTo(FileSamples, MaxDocs)
    /\ fault \in {"none", "classify", "extract", "validate", "decide"}
    /\ documents_data =
           [i \in 1..Len(files) |->
               [file_id |-> i, filename |-> files[i].filename,
                content_type |-> files[i].content_type,
                temp_path |-> i, text_content |-> files[i].pdf]]
    /\ classified_docs = <<>>
    /\ extracted_data = <<>>
    /\ validation_result = NoResponse
    /\ claim_decision = NoResponse
    /\ llm_log = <<>>
    /\ response = NoResponse
    /\ propagated = ""
    /\ temp_files = {}
    /\ raised = NoException
    /\ validator = ClaimValidator
    /\ validations = <<>>

NextFromTexts == ClassifyDocuments \/ ExtractData \/ ValidateData \/ MakeDecision

SpecFromTexts == InitFromTexts /\ [][NextFromTexts]_vars

----------------------------------------------------------------------------
(* The validator on records with dates, hospitals and insurers *)

MaxCrossDocs == 3

CrossRecords ==
    {Record("hospital_bill",
            [patient_name |-> Str("Asha Rao"), admission_date |-> Str("2024-01-01"),
             discharge_date |-> Str("2024-01-05"),
             hospital_name |-> Str("Apollo Hospital"),
             insurance_company |-> Str("ACKO General Insurance"),
             total_amount |-> Num(50000)], 90),
     Record("hospital_bill",
            [patient_name |-> Str("John Smith"), admission_date |-> Str("2024-01-02"),
             discharge_date |-> Str("2024-01-05"),
             hospital_name |-> Str("Fortis Hospital"),
             insurance_company |-> Str("SBI General Insurance")], 90),
     Record("hospital_bill",
            [admission_date |-> None, discharge_date |-> Str(""),
             hospital_name |-> None, insurance_company |-> Str("")], 90),
     Record("hospital_bill", [total_amount |-> Num(50000)], 90),
     Record("discharge_summary",
            [patient_name |-> Str("ASHA RAO"), admission_date |-> Str("2024-01-01"),
             discharge_date |-> Str("2024-01-05"),
             hospital_name |-> Str("Apollo Medical Centre"),
             diagnosis |-> Str("Fever")], 90),
     Record("discharge_summary",
            [patient_name |-> Str("Asha Rao"), admission_date |-> Str("2024-01-02"),
             discharge_date |-> Str("2024-01-06"),
             hospital_name |-> Str("Fortis Medical Center")], 90),
     Record("discharge_summary",
            [admission_date |-> None, discharge_date |-> Str("2024-01-06"),
             hospital_name |-> Str("")], 90),
     Record("discharge_summary",
            [admission_date |-> Str("01/01/2024"), hospital_name |-> Num(7)], 90),
     Record("insurance_card",
            [card_holder_name |-> Str("Asha Rao"),
             insurance_company |-> Str("Acko Insurance Ltd")], 90),
     Record("insurance_card",
            [card_holder_name |-> Str("Jane Smith"),
             insurance_company |-> Str("SBI Insurance Limited")], 90),
     Record("insurance_card", [insurance_company |-> None], 90)}

InitCrossCheck ==
    /\ pc = "extracted"
    /\ model = "none"
    /\ extracted_data \in SeqsUpTo(CrossRecords, MaxCrossDocs)
    /\ validation_result = NoResponse
    /\ files = <<>>
    /\ fault = "none"
    /\ documents_data = <<>>
    /\ classified_docs = <<>>
    /\ claim_decision = NoResponse
    /\ llm_log = <<>>
    /\ response = NoResponse
    /\ propagated = ""
    /\ temp_files = {}
    /\ raised = NoException
    /\ validator = ClaimValidator
    /\ validations = <<>>

SpecCrossCheck == InitCrossCheck /\ [][NextValidate]_vars

----------------------------------------------------------------------------
(* Properties of the decision engine *)

Decided == pc = "done" /\ DOMAIN claim_decision # {"kind"}

\* The backend was asked for a decision, and this is what it answered.
AskedForDecision ==
    llm_log # <<>> /\ llm_log[Len(llm_log)].call = "decide"

DecisionAnswer == llm_log[Len(llm_log)].resp

NamesMissingBill(validation) ==
    \E i \in 1..Len(validation.missing_documents) :
        \E j \in 1..Len(validation.missing_documents[i]) :
            validation.missing_documents[i][j] = "hospital_bill"

\* C1. Whenever the report holds a missing-document entry naming hospital_bill,
\* the rule-based decision (the decision made with no backend) is a rejection
\* with confidence 0.9 and the missing-documents reason, whatever the number of
\* discrepancies, the record confidences or the bill amount.
C1_MissingBillRejectsFirst ==
    (Decided /\ model = "none" /\ NamesMissingBill(validation_result))
    => /\ claim_decision.status = "rejected"
       /\ claim_decision.confidence = Rat(90, 1)
       /\ Head(claim_decision.reason) = "Missing critical documents: "
       /\ claim_decision.recommended_amount = None

\* The case of C1: the bill is missing and there are 5 discrepancies.
C1_Witness ==
    /\ Decided /\ model = "none" /\ NamesMissingBill(validation_result)
    /\ Len(validation_result.discrepancies) = 5
    /\ extracted_data # <<>>
    /\ claim_decision.confidence = Rat(90, 1)

\* The gate the claim's list names for a record list and a report: the first of
\* a..f whose condition holds.  The mean of no records is no number, and is
\* read as not below 0.3.
C2_Gate(records, validation) ==
    LET n == Len(records)
        mean_below == n > 0 /\ SumConf(records) * 10 < 3 * 100 * n
        bill_total == _get_claim_amount(records)
    IN  IF NamesMissingBill(validation) THEN "a"
        ELSE IF Len(validation.discrepancies) >= 3 THEN "b"
        ELSE IF mean_below THEN "c"
        ELSE IF bill_total.k = "num" /\ bill_total.n >= 1000001 THEN "d"
        ELSE IF ~ _is_claim_valid(records) THEN "e"
        ELSE "f"

C2_Verdict(gate) ==
    CASE gate = "a" -> <<"rejected", Rat(90, 1), None>>
      [] gate = "b" -> <<"rejected", Rat(80, 1), None>>
      [] gate = "c" -> <<"rejected", Rat(70, 1), None>>
      [] gate = "d" -> <<"rejected", Rat(90, 1), Num(1000000)>>
      [] gate = "e" -> <<"rejected", Rat(80, 1), None>>

C2_DecisionIsVerdictOf(gate) ==
    IF gate = "f"
    THEN claim_decision.status = "approved"
    ELSE <<claim_decision.status, claim_decision.confidence,
           claim_decision.recommended_amount>> = C2_Verdict(gate)

\* C2. With no backend, the decision is the verdict of the first gate
\* of a..f whose condition holds, for every record list and report.
C2_FirstGateDecides_AsClaimed ==
    (Decided /\ model = "none")
    => C2_DecisionIsVerdictOf(C2_Gate(extracted_data, validation_result))

\* The record list is empty and neither gate a nor gate b holds: gate c has no mean.
C2_NoMean ==
    /\ extracted_data = <<>>
    /\ C2_Gate(extracted_data, validation_result) \notin {"a", "b"}

\* What holds of C2. With no backend, the decision is the verdict of the first
\* gate of a..f whose condition holds whenever gate c has a mean to test (the
\* record list is not empty, or gate a or b holds); the boundary values (2
\* discrepancies, a mean of exactly 0.3, an amount of exactly 1,000,000) trigger
\* none of b, c, d.  With no mean, the division by the number of records fails
\* and the decision is the rejection with confidence 0.1 of make_decision's
\* except clause.
C2_FirstGateDecides ==
    (Decided /\ model = "none")
    => IF C2_NoMean
       THEN /\ claim_decision.status = "rejected"
            /\ claim_decision.confidence = Rat(10, 1)
       ELSE C2_DecisionIsVerdictOf(C2_Gate(extracted_data, validation_result))

\* The case of C2: an approval on all three boundary values at once.
C2_Witness ==
    /\ Decided /\ model = "none"
    /\ Len(validation_result.discrepancies) = 2
    /\ extracted_data # <<>>
    /\ SumConf(extracted_data) = 30 * Len(extracted_data)
    /\ _get_claim_amount(extracted_data) = Num(1000000)
    /\ claim_decision.status = "approved"

\* What C3 calls a failed AI phase: the backend raised, its text held no JSON
\* object or a malformed one, or the object is no ClaimDecision.
C3_AIFailed(resp) ==
    \/ resp.shape \in {"raise", "no_braces", "bad_json"}
    \/ /\ resp.shape = "object"
       /\ \/ "status" \notin DOMAIN resp.obj
          \/ resp.obj["status"] \notin
                 {Str("approved"), Str("rejected"), Str("pending")}
          \/ "reason" \notin DOMAIN resp.obj
          \/ "confidence" \in DOMAIN resp.obj /\ resp.obj["confidence"].k # "num"
          \/ /\ "recommended_amount" \in DOMAIN resp.obj
             /\ resp.obj["recommended_amount"].k = "str"

\* C3. When the backend is configured and the AI phase fails in any way,
\* make_decision returns exactly the rule-based decision.
C3_AIFallback ==
    (Decided /\ model = "configured" /\ AskedForDecision
        /\ C3_AIFailed(DecisionAnswer))
    => claim_decision = _rule_based_decision(extracted_data, validation_result)

\* The case of C3: an object with an unknown status, and the rule-based approval kept.
C3_Witness ==
    /\ Decided /\ model = "configured" /\ AskedForDecision
    /\ DecisionAnswer.shape = "object"
    /\ Get(DecisionAnswer.obj, "status") = Str("maybe")
    /\ claim_decision.status = "approved"

\* C4. When the backend's answer parses into a valid decision object, the decision
\* returned is the model's in every field, none taken from the rule-based one.
C4_AIOverride ==
    (Decided /\ model = "configured" /\ AskedForDecision
        /\ ~ C3_AIFailed(DecisionAnswer))
    => LET obj == DecisionAnswer.obj
       IN  /\ claim_decision.status = obj["status"].s
           /\ claim_decision.reason = <<obj["reason"].s>>
           /\ claim_decision.confidence =
                  Rat(IF "confidence" \in DOMAIN obj THEN obj["confidence"].n ELSE 0, 1)
           /\ claim_decision.recommended_amount =
                  (IF "recommended_amount" \in DOMAIN obj
                   THEN obj["recommended_amount"] ELSE None)

\* The case of C4: the model approves what the rules reject.
C4_Witness ==
    /\ Decided /\ model = "configured" /\ AskedForDecision
    /\ ~ C3_AIFailed(DecisionAnswer)
    /\ claim_decision.status = "approved"
    /\ _rule_based_decision(extracted_data, validation_result).status = "rejected"

----------------------------------------------------------------------------
(* Properties of the validator and the decision engine together *)

NoBillRecord == ~ HasType(extracted_data, "hospital_bill")

\* C5. For every record set with no hospital_bill record, the validator emits a
\* missing-document entry naming hospital_bill and the final decision is
\* 'rejected', with no exception, whether the model is absent, fails or answers.
C5_NoBillRejected_AsClaimed ==
    (pc = "done" /\ NoBillRecord)
    => /\ raised = NoException
       /\ NamesMissingBill(validation_result)
       /\ response.claim_decision.status = "rejected"

\* C5, amended. For every record set with no hospital_bill record the final
\* decision is 'rejected', unless a configured model answers with a valid
\* decision object: then the final decision is the model's, whatever its status.
\* The validator's report names hospital_bill as missing whenever the validator
\* returns one; when it raises instead, the except clause of process_claim rejects.
C5_NoBillRejected ==
    (pc = "done" /\ NoBillRecord)
    => IF raised.stage = "validate"
       THEN /\ response.claim_decision.status = "rejected"
            /\ Mentions(response.claim_decision.reason, raised.msg)
       ELSE /\ NamesMissingBill(validation_result)
            /\ response.claim_decision = claim_decision
            /\ IF AskedForDecision /\ ~ C3_AIFailed(DecisionAnswer)
               THEN claim_decision.status = DecisionAnswer.obj["status"].s
               ELSE /\ claim_decision.status = "rejected"
                    /\ claim_decision.confidence = Rat(90, 1)

\* The case of C5: no bill among the records, and the model's approval returned.
C5_Witness ==
    /\ pc = "done" /\ NoBillRecord /\ extracted_data # <<>>
    /\ raised = NoException
    /\ NamesMissingBill(validation_result)
    /\ AskedForDecision /\ ~ C3_AIFailed(DecisionAnswer)
    /\ response.claim_decision.status = "approved"

----------------------------------------------------------------------------
(* Properties of process_claim *)

\* C6. process_claim never propagates an exception: whatever a stage raises, it
\* returns a response whose decision is 'rejected' and whose reason embeds the
\* message of the exception.
C6_NeverPropagates ==
    /\ propagated = ""
    /\ pc = "done"
       => /\ response.kind = "response"
          /\ raised # NoException
             => /\ response.claim_decision.status = "rejected"
                /\ Mentions(response.claim_decision.reason, raised.msg)

\* The case of C6: the validator failed on a claim, and the claim was rejected
\* with its message.
C6_Witness ==
    /\ pc = "done" /\ raised.stage = "validate"
    /\ propagated = ""
    /\ response.claim_decision.status = "rejected"
    /\ Mentions(response.claim_decision.reason, Unexpected("validate"))

\* The claim's ordinary path: at least one named upload, a text in each, no
\* model, and no failure of the environment.
OrdinaryClaim ==
    /\ Len(files) >= 1
    /\ \A i \in 1..Len(files) : files[i].filename.k = "str" /\ files[i].pdf.k = "text"
    /\ model = "none"
    /\ fault = "none"

\* C7. On the ordinary path process_claim runs the classifier, the extractor,
\* the validator and the decision engine on the plain text of each document and
\* returns the engine's decision; the except clause is not taken.
C7_OrdinaryPathDecides ==
    (pc = "done" /\ OrdinaryClaim)
    => /\ raised = NoException
       /\ Decided
       /\ response.claim_decision = claim_decision
       /\ \A i \in 1..Len(documents_data) :
              documents_data[i].text_content = files[i].pdf

----------------------------------------------------------------------------
(* Properties of the extractors *)

\* The record of the one document, the text it was extracted from, and the
\* JSON object the model answered with (the empty object when it gave none).
TheRecord == extracted_data[1]

TheText == documents_data[1].text_content

TheObject ==
    IF llm_log # <<>> /\ llm_log[1].resp.shape = "object"
    THEN llm_log[1].resp.obj ELSE <<>>

Extracted ==
    pc = "extracted" /\ Len(extracted_data) = 1 /\ TheRecord.document_type \in Agents

\* C8. For every text, each extractor and every model outcome that is no JSON
\* object (backend absent, backend exception, unparsable response, JSON that is
\* not an object), extract_data does not raise and the confidence of its record
\* lies in [0,1].
C8_ExtractorsNeverRaise ==
    (llm_log = <<>> \/ llm_log[1].resp.shape # "object")
    => /\ raised.stage # "extract"
       /\ Extracted => TheRecord.extraction_confidence \in 0..100

\* What the patterns give for a field: what they find, else nothing (no items).
C9_PatternValue(key) ==
    IF key \in DOMAIN TheText.fields THEN TheText.fields[key]
    ELSE IF key = "items" THEN List(0) ELSE None

\* C9. For every field of the schema the merged value is the model's value when
\* that is truthy, otherwise the value of the patterns, otherwise absent; keys of
\* the model that are not in the schema are not in the merged record.
C9_MergePolicy ==
    Extracted
    => /\ DOMAIN TheRecord.data = Schema(TheRecord.document_type)
       /\ \A key \in Schema(TheRecord.document_type) :
              TheRecord.data[key] =
                  (IF Truthy(Get(TheObject, key))
                   THEN TheObject[key] ELSE C9_PatternValue(key))

\* The case of C9: the model's value wins over a different value of the
\* patterns, and the model's key outside the schema is dropped.
C9_Witness ==
    /\ Extracted
    /\ "notes" \in DOMAIN TheObject
    /\ \E key \in DOMAIN TheRecord.data :
          /\ Truthy(C9_PatternValue(key))
          /\ Truthy(Get(TheObject, key))
          /\ TheObject[key] # C9_PatternValue(key)
          /\ TheRecord.data[key] = TheObject[key]

RECURSIVE C10_TotalWeight(_, _)
C10_TotalWeight(agent, i) ==
    IF i = 0 THEN 0 ELSE C10_TotalWeight(agent, i - 1) + Weights(agent)[i][2]

C10_Populated(data) == {key \in DOMAIN data : Truthy(data[key])}

\* C10. For each document type, a record whose populated fields include those
\* of another has at least the other's confidence; the weights of the type sum
\* to 1.0, a fully populated record has confidence 1.0 and an all-absent one 0.
C10_ConfidenceMonotone ==
    Extracted
    => LET type == TheRecord.document_type
           A == TheRecord.data
       IN  /\ C10_TotalWeight(type, Len(Weights(type))) = 100
           /\ \A fields \in SUBSET C10_Populated(A) :
                  LET B == [key \in DOMAIN A |-> IF key \in fields THEN A[key] ELSE None]
                  IN  _calculate_confidence(type, B) <= TheRecord.extraction_confidence
           /\ C10_Populated(A) = DOMAIN A => TheRecord.extraction_confidence = 100
           /\ C10_Populated(A) = {} => TheRecord.extraction_confidence = 0

\* The case of C10: a fully populated bill, with confidence 1.0.
C10_Witness ==
    /\ Extracted
    /\ TheRecord.document_type = "hospital_bill"
    /\ C10_Populated(TheRecord.data) = DOMAIN TheRecord.data
    /\ TheRecord.extraction_confidence = 100

----------------------------------------------------------------------------
(* Properties of the validator *)

\* C11. Two calls of validate on the same record list have the same outcome,
\* the same missing-document, discrepancy and warning entries in the same order,
\* and the outcome of a call is that of a validator no call was made on before.
C11_ValidatorDeterministic ==
    \A i \in 1..Len(validations) :
        /\ validations[i].result = validate_on(ClaimValidator, validations[i].records)
        /\ \A j \in 1..Len(validations) :
               validations[i].records = validations[j].records
               => validations[i].result = validations[j].result

\* The case of C11: a record list validated twice, with a call on other records
\* in between that found both required documents, and a report that holds a
\* missing document, a discrepancy and a warning.
C11_Witness ==
    /\ Len(validations) = 3
    /\ validations[1].records = validations[3].records
    /\ validations[2].records # validations[1].records
    /\ HasType(validations[2].records, "hospital_bill")
    /\ HasType(validations[2].records, "discharge_summary")
    /\ ~ IsRaised(validations[2].result)
    /\ ~ IsRaised(validations[3].result)
    /\ validations[3].result.missing_documents # <<>>
    /\ validations[3].result.discrepancies # <<>>
    /\ validations[3].result.warnings # <<>>

\* The name the cross-check takes from the record of a type.
C12_NameOf(type) ==
    LET data == LastOfType(extracted_data, type)
    IN  IF type = "insurance_card"
        THEN Get(data, "card_holder_name") ELSE Get(data, "patient_name")

\* The types whose record carries a name.
C12_Present ==
    {type \in {"hospital_bill", "discharge_summary", "insurance_card"} :
        HasType(extracted_data, type) /\ Truthy(C12_NameOf(type))}

\* The name-mismatch discrepancies of the report.
C12_NameMismatches ==
    {i \in 1..Len(validation_result.discrepancies) :
        validation_result.discrepancies[i][1] =
            "Patient name mismatch across documents: "}

\* C12. When the names of the bill, the discharge summary and the insurance
\* card (its card_holder_name) that are present are strings: if they are all
\* equal after lower-casing and collapsing whitespace the report holds no name
\* discrepancy; if two of them differ after that it holds exactly one, which
\* contains the name of every document compared.
C12_NameCrossCheck ==
    /\ validations # <<>>
    /\ \A type \in C12_Present : C12_NameOf(type).k = "str"
    => /\ pc = "validated"
       /\ IF \E s, t \in C12_Present :
                 LowerCollapse(C12_NameOf(s).s) # LowerCollapse(C12_NameOf(t).s)
          THEN /\ Cardinality(C12_NameMismatches) = 1
               /\ \A i \in C12_NameMismatches : \A type \in C12_Present :
                      /\ Mentions(validation_result.discrepancies[i], type)
                      /\ Mentions(validation_result.discrepancies[i],
                                  C12_NameOf(type).s)
          ELSE C12_NameMismatches = {}

\* The case of C12: three names, two of them equal only after the
\* normalization and the third another person's, and one discrepancy for them.
C12_Witness ==
    /\ pc = "validated"
    /\ C12_Present = {"hospital_bill", "discharge_summary", "insurance_card"}
    /\ C12_NameOf("hospital_bill") = Str("Asha Rao")
    /\ C12_NameOf("discharge_summary") = Str("asha  rao")
    /\ C12_NameOf("insurance_card") = Str("John Smith")
    /\ Cardinality(C12_NameMismatches) = 1
    /\ Len(validation_result.discrepancies) = 1

\* The bill records of the claim.
C13_Bills ==
    {i \in 1..Len(extracted_data) : extracted_data[i].document_type = "hospital_bill"}

\* The premise of C13: the claim's one bill carries a patient name and a
\* numeric total amount not above 1,000,000, no document is missing, there are at
\* most 2 discrepancies, the mean confidence is at least 0.3 and some record has
\* a confidence above 0.3.
C13_Approvable ==
    /\ \E i \in C13_Bills :
          /\ C13_Bills = {i}
          /\ Truthy(Get(extracted_data[i].data, "patient_name"))
          /\ Get(extracted_data[i].data, "total_amount").k = "num"
          /\ Truthy(Get(extracted_data[i].data, "total_amount"))
          /\ Get(extracted_data[i].data, "total_amount").n <= 1000000
    /\ validation_result.missing_documents = <<>>
    /\ Len(validation_result.discrepancies) <= 2
    /\ SumConf(extracted_data) >= 30 * Len(extracted_data)
    /\ \E i \in 1..Len(extracted_data) : extracted_data[i].extraction_confidence > 30

----------------------------------------------------------------------------
(* Properties of the extractors' patterns *)

\* The numeric candidates of the text: the amounts of its matches.
C14_Candidates ==
    {AmountOf(TheText.fields.sum_insured.m[i]) :
        i \in 1..Len(TheText.fields.sum_insured.m)} \ {-1}

\* C14. The sum_insured extracted from a text is the largest of its candidates
\* that are at least 10,000; candidates below 10,000 are discarded, and the
\* field is absent if no candidate is left.
C14_SumInsured ==
    Extracted
    => LET kept == {c \in C14_Candidates : c >= 10000}
       IN  IF kept = {}
           THEN TheRecord.data.sum_insured = None
           ELSE /\ TheRecord.data.sum_insured.k = "num"
                /\ TheRecord.data.sum_insured.n \in kept
                /\ \A c \in kept : c <= TheRecord.data.sum_insured.n

\* The case of C14: a candidate of 50, the floor itself and 500,000 after it;
\* the sum insured is 500000.
C14_Witness ==
    /\ Extracted
    /\ TheText.fields.sum_insured.m = <<"50", "10,000", "500,000">>
    /\ TheRecord.data.sum_insured = Num(500000)

----------------------------------------------------------------------------
(* Properties of the classifier *)

\* The one document classified, and the keyword hits of a label on it.
TheDocument == documents_data[1]

TheClass == classified_docs[1]

C15_Score(keywords) ==
    Cardinality({w \in keywords :
        w \in TheDocument.filename.kw \/ w \in TheDocument.text_content.kw})

\* The deterministic path classified the document.
C15_ByKeywords == pc = "classified" /\ model = "none"

\* C15. When no keyword of any label occurs in the filename or the text, the
\* deterministic classifier returns 'other' with confidence 0.1.
C15_ZeroScoreIsOther ==
    (/\ C15_ByKeywords
     /\ C15_Score(bill_keywords) = 0
     /\ C15_Score(discharge_keywords) = 0
     /\ C15_Score(insurance_keywords) = 0)
    => /\ TheClass.document_type = "other"
       /\ TheClass.confidence = Rat(10, 1)

\* The keywords of a label.
C16_Keywords(label) ==
    CASE label = "hospital_bill" -> bill_keywords
      [] label = "discharge_summary" -> discharge_keywords
      [] label = "insurance_card" -> insurance_keywords

\* hospital_bill before discharge_summary before insurance_card
C16_Rank(label) ==
    CASE label = "hospital_bill" -> 1
      [] label = "discharge_summary" -> 2
      [] label = "insurance_card" -> 3

\* C16. When some keyword occurs, the deterministic classifier returns a label
\* of maximum score, among the labels of that score the first of hospital_bill,
\* discharge_summary, insurance_card, and as confidence
\* min(0.9, score / number of keywords of the label).
C16_MaxScoreWins ==
    (C15_ByKeywords /\ \E label \in Agents : C15_Score(C16_Keywords(label)) > 0)
    => /\ TheClass.document_type \in Agents
       /\ LET winner == TheClass.document_type
              score == C15_Score(C16_Keywords(winner))
              size == Cardinality(C16_Keywords(winner))
          IN  /\ \A label \in Agents :
                    /\ C15_Score(C16_Keywords(label)) <= score
                    /\ C15_Score(C16_Keywords(label)) = score
                       => C16_Rank(winner) <= C16_Rank(label)
              /\ TheClass.confidence.num * size
                     = Min(100 * score, 90 * size) * TheClass.confidence.den

\* The case of C16: discharge_summary and insurance_card tie on 5 hits, above
\* the bill's; discharge_summary wins, with the confidence at its ceiling.
C16_Witness ==
    /\ C15_ByKeywords
    /\ C15_Score(discharge_keywords) = 5
    /\ C15_Score(insurance_keywords) = 5
    /\ C15_Score(bill_keywords) \in 1..4
    /\ TheClass.document_type = "discharge_summary"
    /\ TheClass.confidence = Rat(90, 1)

\* The backend was asked to classify the document, and this is its answer.
C17_Asked == llm_log # <<>> /\ llm_log[1].call = "classify"

C17_Answer == llm_log[1].resp

\* The answer is not 'label,confidence' with a number as confidence.
C17_Malformed ==
    C17_Answer.shape = "text" /\ (C17_Answer.parts # 2 \/ C17_Answer.conf.k # "num")

\* The answer is 'label,confidence' with a label that is none of the four.
C17_UnknownLabel ==
    /\ C17_Answer.shape = "text"
    /\ C17_Answer.parts = 2
    /\ C17_Answer.conf.k = "num"
    /\ C17_Answer.label \notin {"hospital_bill", "discharge_summary",
                                "insurance_card", "other"}

\* classify ended as the deterministic path does on the same filename and text:
\* with its result, or with its exception.
C17_AsByKeywords ==
    LET expected == _rule_based_classify(TheDocument.file_id, TheDocument.filename,
                                         TheDocument.text_content)
    IN  IF IsRaised(expected)
        THEN pc = "done" /\ raised = [stage |-> "classify", msg |-> expected.exc]
        ELSE pc = "classified" /\ TheClass = expected

----------------------------------------------------------------------------
(* Properties of process_claim's first step *)

\* C18. Every temporary file made for an upload is deleted by the end of that
\* document's text extraction, however it ends: no temporary file of a request
\* exists when process_claim returns.
C18_TempFilesReleased ==
    (pc = "done" /\ fault = "none") => temp_files = {}

\* The documents whose text the tool fails to extract.
C19_ToolFails == {i \in 1..Len(files) : files[i].pdftotext # "ok"}

\* C19. When the text tool fails for a document (non-zero exit, or not
\* installed), the document's text is the empty string, nothing is raised, and
\* the claim goes on through classification, extraction, validation and
\* decision and does not end in the catch-all rejection.
C19_ToolFailureNotFatal ==
    (pc = "done" /\ fault = "none" /\ C19_ToolFails # {})
    => /\ \A i \in C19_ToolFails : documents_data[i].text_content = NoText
       /\ raised = NoException
       /\ Decided

----------------------------------------------------------------------------
(* Properties of the order of process_claim's steps *)

\* There is one record per classified document, in order, each of its
\* document's type and text.
C20_AllExtracted ==
    /\ Len(extracted_data) = Len(classified_docs)
    /\ \A i \in 1..Len(classified_docs) :
          /\ extracted_data[i].document_type = classified_docs[i].document_type
          /\ extracted_data[i].raw_text =
                 documents_data[classified_docs[i].file_id].text_content

\* C20. Within one claim, validation starts only when the extraction of every
\* classified document has completed, and the validator is given exactly one
\* record per classified document; the decision starts only when validation
\* has returned its report.
C20_JoinPoint ==
    [][/\ (pc = "extracted" /\ pc' # pc) => C20_AllExtracted
       /\ validations' # validations
          => /\ C20_AllExtracted
             /\ validations' =
                    Append(validations,
                           [records |-> extracted_data,
                            result |-> validations'[Len(validations')].result])
       /\ (pc = "validated" /\ pc' # pc)
          => /\ validations # <<>>
             /\ validation_result = validations[Len(validations)].result
             /\ DOMAIN validation_result # {"kind"}]_vars

\* The case of C20: a claim of two documents, one of them of type other, is
\* decided after both records went to the validator.
C20_Witness ==
    /\ Decided
    /\ Len(classified_docs) = 2
    /\ classified_docs[2].document_type = "other"
    /\ C20_AllExtracted
    /\ Len(validations) = 1
    /\ validations[1].records = extracted_data

----------------------------------------------------------------------------
(* Properties of the stages' effects *)

\* C21. validate and make_decision leave every extracted record (type, fields,
\* confidence, raw text) as extraction produced it, make_decision leaves the
\* three lists of the report as validate returned them, and the documents of
\* the response are those records.
C21_StagePurity ==
    [][/\ pc \in {"extracted", "validated"} => extracted_data' = extracted_data
       /\ pc = "validated" => validation_result' = validation_result
       /\ (pc = "validated" /\ pc' = "done")
          => /\ response'.validation = validation_result
             /\ Len(response'.documents) = Len(extracted_data)
             /\ \A i \in 1..Len(extracted_data) :
                    /\ response'.documents[i].type = extracted_data[i].document_type
                    /\ response'.documents[i].data = extracted_data[i].data
                    /\ response'.documents[i].confidence
                           = extracted_data[i].extraction_confidence]_vars

\* The case of C21: a bill and a discharge summary that carry names went
\* through validate, whose report has entries, and through make_decision.
C21_Witness ==
    /\ Decided
    /\ Len(extracted_data) = 2
    /\ \A i \in 1..2 : Truthy(Get(extracted_data[i].data, "patient_name"))
    /\ validations # <<>>
    /\ validations[1].records = extracted_data
    /\ validation_result.warnings # <<>>
    /\ response.validation = validation_result
    /\ Len(response.documents) = 2

\* A confidence, in hundredths, lies in [0,1].
C22_InRange(confidence) ==
    0 <= confidence.num /\ confidence.num <= 100 * confidence.den

\* C22. Every classification that classify returns and every decision that
\* make_decision returns has a confidence in [0,1], on the deterministic paths
\* and on the model paths, whatever confidence the model reports.
C22_ConfidenceInRange ==
    /\ pc = "classified"
       => \A i \in 1..Len(classified_docs) : C22_InRange(classified_docs[i].confidence)
    /\ Decided => C22_InRange(claim_decision.confidence)

----------------------------------------------------------------------------
(* Properties of the response *)

\* C23. When process_claim completes without an exception reaching its except
\* clause, on n files, the documents of the response are n entries under n
\* keys, the i-th holding the type, fields and confidence of the i-th input
\* document, and the summary counts n total, n classified and n extracted.
C23_ResponseShape ==
    Decided
    => LET n == Len(files)
       IN  /\ Len(response.documents) = n
           /\ Len(classified_docs) = n
           /\ \A i \in 1..n :
                  /\ classified_docs[i].file_id = documents_data[i].file_id
                  /\ extracted_data[i].raw_text = documents_data[i].text_content
                  /\ response.documents[i].type = classified_docs[i].document_type
                  /\ response.documents[i].type = extracted_data[i].document_type
                  /\ response.documents[i].data = extracted_data[i].data
                  /\ response.documents[i].confidence
                         = extracted_data[i].extraction_confidence
           /\ response.processing_summary =
                  [total_documents |-> n, classified_documents |-> n,
                   extracted_documents |-> n]

\* The case of C23: two uploads that are both hospital bills, and a response
\* with two documents.
C23_Witness ==
    /\ Decided
    /\ Len(files) = 2
    /\ Len(response.documents) = 2
    /\ \A i \in 1..2 : response.documents[i].type = "hospital_bill"
    /\ response.processing_summary.extracted_documents = 2

----------------------------------------------------------------------------
(* Properties of the cross-document checks *)

Validated == pc = "validated" /\ raised = NoException

\* The discrepancies of the report whose message starts with `head`.
DiscrepanciesOf(head) ==
    {i \in 1..Len(validation_result.discrepancies) :
        validation_result.discrepancies[i][1] = head}

\* The value a check reads from the record of a type, None without the record.
Compared(type, field) ==
    IF HasType(extracted_data, type)
    THEN Get(LastOfType(extracted_data, type), field) ELSE None

C24_BothThere(type1, type2, field) ==
    /\ HasType(extracted_data, type1) /\ HasType(extracted_data, type2)
    /\ Compared(type1, field) # None /\ Compared(type2, field) # None

C24_Dates(field, label) ==
    LET bill == Compared("hospital_bill", field)
        discharge == Compared("discharge_summary", field)
    IN  /\ DiscrepanciesOf(label) # {}
           => C24_BothThere("hospital_bill", "discharge_summary", field)
        /\ (Truthy(bill) /\ Truthy(discharge))
           => /\ DiscrepanciesOf(label) # {} <=> bill.s # discharge.s
              /\ \A i \in DiscrepanciesOf(label) :
                     /\ Mentions(validation_result.discrepancies[i], bill.s)
                     /\ Mentions(validation_result.discrepancies[i], discharge.s)

\* C24. The admission-date, discharge-date, hospital-name and insurer-name
\* checks report a discrepancy only when both records are there and both values
\* are there and not null; a date that both records hold is reported, with both
\* values, exactly when the two date strings differ.
C24_GuardedChecks ==
    Validated
    => /\ C24_Dates("admission_date", "Admission")
       /\ C24_Dates("discharge_date", "Discharge")
       /\ DiscrepanciesOf("Hospital name mismatch: ") # {}
          => C24_BothThere("hospital_bill", "discharge_summary", "hospital_name")
       /\ DiscrepanciesOf("Insurance company mismatch: Bill shows ") # {}
          => C24_BothThere("hospital_bill", "insurance_card", "insurance_company")

\* The case of C24: a report with an admission-date discrepancy naming both
\* dates, for a claim whose bill and discharge summary agree on the discharge
\* date.
C24_Witness ==
    /\ Validated
    /\ \E i \in DiscrepanciesOf("Admission") :
           /\ Mentions(validation_result.discrepancies[i], "2024-01-01")
           /\ Mentions(validation_result.discrepancies[i], "2024-01-02")
    /\ DiscrepanciesOf("Discharge") = {}
    /\ Truthy(Compared("hospital_bill", "discharge_date"))
    /\ Truthy(Compared("discharge_summary", "discharge_date"))

----------------------------------------------------------------------------
(* Properties of the rule-based decision *)

RuleDecided == Decided /\ model = "none"

\* C25. Without a model backend make_decision never answers 'pending': the
\* decision is 'approved' or 'rejected', a rejection has confidence 0.9, 0.8,
\* 0.7 or 0.1, and an approval has confidence at least 0.5.
C25_RuleStatuses ==
    RuleDecided
    => /\ claim_decision.status \in {"approved", "rejected"}
       /\ claim_decision.status = "rejected"
          => \E c \in {90, 80, 70, 10} :
                 /\ RatLeq(claim_decision.confidence, Rat(c, 1))
                 /\ RatLeq(Rat(c, 1), claim_decision.confidence)
       /\ claim_decision.status = "approved"
          => RatLeq(Rat(50, 1), claim_decision.confidence)

\* The case of C25: an approval at confidence 0.5 exactly, the mean of the
\* records being 0.3.
C25_Witness ==
    /\ RuleDecided
    /\ claim_decision.status = "approved"
    /\ extracted_data # <<>>
    /\ SumConf(extracted_data) = min_confidence * Len(extracted_data)
    /\ RatLeq(claim_decision.confidence, Rat(50, 1))


\* The report lists the discharge summary, and not the bill, as missing.
C26_OnlyDischargeMissing ==
    /\ \E i \in 1..Len(validation_result.missing_documents) :
           Mentions(validation_result.missing_documents[i], "discharge_summary")
    /\ \A i \in 1..Len(validation_result.missing_documents) :
           ~ Mentions(validation_result.missing_documents[i], "hospital_bill")

\* C26. Gate a looks only at hospital_bill: a claim whose report lists the
\* discharge summary, and not the bill, as a missing required document is not
\* rejected for missing critical documents.
C26_GateAOnlyBill ==
    (RuleDecided /\ C26_OnlyDischargeMissing)
    => claim_decision.reason[1] # "Missing critical documents: "

\* The case of C26: a claim with no discharge summary at all, reported as
\* missing by the validator, that the rule-based decision approves.
C26_Witness ==
    /\ RuleDecided
    /\ validations # <<>>
    /\ ~ HasType(extracted_data, "discharge_summary")
    /\ validation_result.missing_documents = <<MissingEntry("discharge_summary")>>
    /\ claim_decision.status = "approved"


\* The records of the claim without the documents classified as 'other'.
C27_Related == SelectSeq(extracted_data, LAMBDA r : r.document_type # "other")

C27_ApprovedAlone ==
    /\ C27_Related # <<>>
    /\ ~ IsRaised(validate(C27_Related))
    /\ ~ IsRaised(_rule_based_decision(C27_Related, validate(C27_Related)))
    /\ _rule_based_decision(C27_Related, validate(C27_Related)).status = "approved"

\* C27. A document classified as 'other' yields a record of type 'other' with
\* no fields and confidence 0.0, and the record counts in the mean of gate c:
\* a claim that is approved without its unrelated documents is rejected for low
\* confidence when the mean over all its records is below 0.3 (and the rule
\* phase meets no unexpected exception).
C27_OtherCounts ==
    RuleDecided
    => /\ \A i \in 1..Len(classified_docs) :
              classified_docs[i].document_type = "other"
              => /\ extracted_data[i].document_type = "other"
                 /\ extracted_data[i].data = <<>>
                 /\ extracted_data[i].extraction_confidence = 0
       /\ (C27_ApprovedAlone
           /\ fault # "decide"
           /\ SumConf(extracted_data) < min_confidence * Len(extracted_data))
          => /\ claim_decision.status = "rejected"
             /\ claim_decision.reason[1] = "Low data extraction confidence ("

\* The case of C27: a claim approved without its unrelated document and
\* rejected with it.
C27_Witness ==
    /\ RuleDecided
    /\ HasType(extracted_data, "other")
    /\ C27_ApprovedAlone
    /\ claim_decision.status = "rejected"
    /\ claim_decision.reason[1] = "Low data extraction confidence ("


\* The bills of the claim whose total amount is a number other than zero.
C28_NumericBills ==
    {i \in 1..Len(extracted_data) :
        /\ extracted_data[i].document_type = "hospital_bill"
        /\ Get(extracted_data[i].data, "total_amount").k = "num"
        /\ Get(extracted_data[i].data, "total_amount").n # 0}

C28_CeilingRejection ==
    claim_decision.status = "rejected" /\ claim_decision.reason[1] = "Claim amount ("

\* C28. In a rule-based decision the recommended amount, when there is one,
\* does not exceed 1,000,000: it is 1,000,000 on a ceiling rejection, the total
\* of the first bill with a numeric non-zero total on an approval, and absent
\* on every other rejection.
C28_RecommendedAmount ==
    RuleDecided
    => LET amount == claim_decision.recommended_amount
       IN  /\ amount # None => (amount.k = "num" /\ amount.n <= 1000000)
           /\ C28_CeilingRejection => amount = Num(1000000)
           /\ (claim_decision.status = "approved" /\ C28_NumericBills # {})
              => amount =
                   Get(extracted_data[CHOOSE i \in C28_NumericBills :
                                          \A j \in C28_NumericBills : i <= j].data,
                       "total_amount")
           /\ (claim_decision.status = "approved" /\ C28_NumericBills = {})
              => amount = None
           /\ (claim_decision.status = "rejected" /\ ~ C28_CeilingRejection)
              => amount = None

\* The case of C28: an approval of a claim with two bills of different totals,
\* the first of them at the ceiling.
C28_Witness ==
    /\ RuleDecided
    /\ claim_decision.status = "approved"
    /\ claim_decision.recommended_amount = Num(1000000)
    /\ \E i \in C28_NumericBills :
           Get(extracted_data[i].data, "total_amount") # Num(1000000)


\* The records without those that a later record of the same type follows.
RECURSIVE C29_LastOnly(_)
C29_LastOnly(records) ==
    IF records = <<>> THEN <<>>
    ELSE (IF HasType(Tail(records), Head(records).document_type)
          THEN <<>> ELSE <<Head(records)>>)
         \o C29_LastOnly(Tail(records))

C29_FieldWarnings(warnings) ==
    SelectSeq(warnings, LAMBDA w : w[1] # "Low confidence extraction for ")

\* The place of a discrepancy in the order of the checks.
C29_Rank(discrepancy) ==
    CASE discrepancy[1] = "Patient name mismatch across documents: " -> 1
      [] discrepancy[1] = "Admission" -> 2
      [] discrepancy[1] = "Discharge" -> 3
      [] discrepancy[1] = "Hospital name mismatch: " -> 4
      [] discrepancy[1] = "Insurance company mismatch: Bill shows " -> 5
      [] OTHER -> 0

\* C29. Of several records of one document type the cross-document checks and
\* the missing-field warnings use the last only: the discrepancies and those
\* warnings are the ones of the claim without the earlier records, and the
\* discrepancies are at most 5, in the order name, admission date, discharge
\* date, hospital, insurer.
C29_LastRecordOnly ==
    Validated
    => LET last == validate(C29_LastOnly(extracted_data))
           found == validation_result.discrepancies
       IN  /\ ~ IsRaised(last)
           /\ found = last.discrepancies
           /\ C29_FieldWarnings(validation_result.warnings)
                  = C29_FieldWarnings(last.warnings)
           /\ Len(found) <= 5
           /\ \A i \in 1..Len(found) : C29_Rank(found[i]) # 0
           /\ \A i, j \in 1..Len(found) :
                  i < j => C29_Rank(found[i]) < C29_Rank(found[j])

\* The case of C29: a claim without discrepancies whose earlier record of a
\* type, were it the only one of its type, would have given one.
C29_Witness ==
    /\ Validated
    /\ validation_result.discrepancies = <<>>
    /\ \E i \in 1..Len(extracted_data) :
           LET others == SelectSeq(extracted_data,
                             LAMBDA r : r.document_type
                                            # extracted_data[i].document_type)
               alone == validate(<<extracted_data[i]>> \o others)
           IN  /\ HasType(SubSeq(extracted_data, i + 1, Len(extracted_data)),
                          extracted_data[i].document_type)
               /\ ~ IsRaised(alone)
               /\ alone.discrepancies # <<>>


\* C30. make_decision never raises: whatever the records and the report, the
\* empty record list included, it returns a ClaimDecision, and an error in the
\* rule-based phase gives 'rejected' with confidence 0.1 and a reason that
\* holds the error's text.
C30_NeverRaises ==
    pc = "done"
    => /\ Decided
       /\ ~ IsRaised(claim_decision)
       /\ propagated = ""
       /\ response.claim_decision = claim_decision
       /\ raised # NoException
          => /\ raised.stage = "decide"
             /\ claim_decision.status = "rejected"
             /\ claim_decision.confidence = Rat(10, 1)
             /\ Mentions(claim_decision.reason, raised.msg)
       /\ (extracted_data = <<>> /\ fault = "none"
           /\ ~ NamesMissingBill(validation_result)
           /\ Len(validation_result.discrepancies) <= 2)
          => /\ raised # NoException
             /\ raised.msg = "division by zero"

\* The case of C30: the empty record list with a report that names no missing
\* bill, decided as a rejection at 0.1 for the division by zero.
C30_Witness ==
    /\ Decided
    /\ extracted_data = <<>>
    /\ ~ NamesMissingBill(validation_result)
    /\ claim_decision.status = "rejected"
    /\ claim_decision.confidence = Rat(10, 1)
    /\ Mentions(claim_decision.reason, "division by zero")

====
